---- MODULE Spec2Model ----
(***************************************************************************)
(* Memory Lane: the entry catalog (SQLite table `entries`), the Dropbox    *)
(* reconciliation pass, the Dropbox client cache and the temporary-link    *)
(* cache, modelled as one state machine.                                   *)
(*                                                                         *)
(* Node runs one handler continuation at a time: a handler is split into   *)
(* actions exactly at the `await`s that wait for the remote store; the     *)
(* synchronous better-sqlite3 calls between two such awaits are one step.  *)
(***************************************************************************)
EXTENDS Integers, Sequences, FiniteSets, TLC

(***************************************************************************)
(* Bounds of the model.                                                    *)
(***************************************************************************)
NumPaths == 2      \* media paths that may exist in the Dropbox folder
MaxIds == 3        \* rows ever inserted (uuidv4 values drawn)
MaxTime == 1       \* last value of the clock
MaxPosition == 1   \* largest position getNextPosition is let to hand out
MaxLinks == 2      \* temporary links the remote store is let to issue
MaxReorder == 2    \* ids in the body of a reorder request

(***************************************************************************)
(* Durations, in units of five minutes.                                    *)
(***************************************************************************)
FIVE_MINUTES == 1

THREE_HOURS == 36

FOUR_HOURS == 48

(***************************************************************************)
(* Values.                                                                 *)
(***************************************************************************)
\* SQL NULL / JS null: a nullable column holds <<>> or <<v>>.
NULL == <<>>

Some(v) == <<v>>

PathNames == <<"/a.jpg", "/b.jpg", "/c.mp4", "/d.png">>

Paths == {PathNames[i] : i \in 1..NumPaths}

NARRATION_SUFFIX == ".narration.webm"

getNarrationPath(mediaPath) == mediaPath \o NARRATION_SUFFIX

Procs == {1, 2}

\* Requests for a link, and requests that write a narration, in flight at once.
Getters == {1}

Writers == {1}

\* Requests that change an entry's status, in flight at once.
Putters == {1, 2}

\* A PUT request nobody has sent.
NoPutCall ==
  [pc |-> "idle", id |-> 0, status |-> "none", code |-> 0, assigned |-> NULL,
   with |-> {}]

\* Keys of the link cache: the media paths and their narration paths.
LinkPaths == Paths \cup {getNarrationPath(path) : path \in Paths}

Range(s) == {s[i] : i \in DOMAIN s}

\* All orderings of a finite set, as sequences without repetition.
Orderings(S) ==
  {s \in [1..Cardinality(S) -> S] : \A i, j \in DOMAIN s : s[i] = s[j] => i = j}

Max(S) == CHOOSE x \in S : \A y \in S : y <= x

VARIABLES
  entries,          \* rows of table `entries`
  nextId,           \* number of ids drawn so far (the next uuid)
  now,              \* wall clock, datetime('now') / Date.now()
  remoteFiles,      \* media objects present in the Dropbox folder
  remoteNarration,  \* media paths whose narration object exists remotely
  syncPc,           \* position of each reconciliation request
  syncListing,      \* listing a request received from listMediaFiles
  syncResult,       \* outcome of the request's syncFromDropbox call
  putCall,          \* each PUT /api/edit/entries/[id] request in flight
  credentials,      \* DROPBOX_APP_KEY, _APP_SECRET and _REFRESH_TOKEN all set
  cachedClient,     \* client.ts: the cached Dropbox handle, or null
  tokenExpiry,      \* client.ts: expiry recorded for the cached handle
  linkCache,        \* files.ts: Map path -> {link, expiry}
  linksIssued,      \* temporary links the remote store has issued
  linkAsked,        \* history: when the call that cached a path's link began
  clientCall,       \* history: the latest call of getDropboxClient by itself
  linkCall,         \* each media / narration GET request and its position
  narrCall,         \* each narration POST / DELETE request and its position
  lastOp            \* history: the latest call into the catalog that writes

vars == <<entries, nextId, now, remoteFiles, remoteNarration,
          syncPc, syncListing, syncResult, putCall, credentials, cachedClient,
          tokenExpiry, linkCache, linksIssued, linkAsked, clientCall,
          linkCall, narrCall, lastOp>>

catalogVars == <<entries, nextId, lastOp>>

remoteVars == <<remoteFiles, remoteNarration>>

syncVars == <<syncPc, syncListing, syncResult, putCall>>

clientVars == <<credentials, cachedClient, tokenExpiry, clientCall>>

linkVars == <<linkCache, linksIssued, linkAsked, linkCall, narrCall>>

(***************************************************************************)
(* Entry catalog: repository.ts                                            *)
(***************************************************************************)
\* Variant: the schema giving new rows a position (DEFAULT 0).
NewEntry_Positioned(id, dropboxPath, t) ==
  [id |-> id, dropbox_path |-> dropboxPath, title |-> NULL,
   transcript |-> NULL, position |-> Some(0), disabled |-> 0,
   created_at |-> t, updated_at |-> t, has_narration |-> 0]

\* Row as INSERT INTO entries (id, dropbox_path) leaves it: schema defaults.
NewEntry(id, dropboxPath, t) ==
  [id |-> id, dropbox_path |-> dropboxPath, title |-> NULL,
   transcript |-> NULL, position |-> NULL, disabled |-> 0,
   created_at |-> t, updated_at |-> t, has_narration |-> 0]

getEntryById(es, id) == {e \in es : e.id = id}

getEntryByPath(es, dropboxPath) == {e \in es : e.dropbox_path = dropboxPath}

\* dropbox_path TEXT NOT NULL UNIQUE: the INSERT is rejected.
UniqueViolation(es, dropboxPath) == getEntryByPath(es, dropboxPath) # {}

\* Variant: the table without the UNIQUE constraint on dropbox_path.
createEntry_NoUnique(es, id, dropboxPath, t) ==
  [ok |-> TRUE, entries |-> es \cup {NewEntry(id, dropboxPath, t)}]

\* createEntry: ok = FALSE is the thrown SqliteError, no row added.
createEntry(es, id, dropboxPath, t) ==
  IF UniqueViolation(es, dropboxPath)
  THEN [ok |-> FALSE, entries |-> es]
  ELSE [ok |-> TRUE, entries |-> es \cup {NewEntry(id, dropboxPath, t)}]

Bool01(b) == IF b THEN 1 ELSE 0

HasField(updates, f) == f \in DOMAIN updates

UpdatedRow(e, updates, t) ==
  [e EXCEPT
     !.title = IF HasField(updates, "title") THEN updates.title ELSE @,
     !.transcript = IF HasField(updates, "transcript")
                    THEN updates.transcript ELSE @,
     !.position = IF HasField(updates, "position")
                  THEN updates.position ELSE @,
     !.disabled = IF HasField(updates, "disabled")
                  THEN Bool01(updates.disabled) ELSE @,
     !.has_narration = IF HasField(updates, "has_narration")
                       THEN Bool01(updates.has_narration) ELSE @,
     !.updated_at = t]

\* Variant: the UPDATE run even when no field is given.
updateEntry_AlwaysWrites(es, id, updates, t) ==
  {IF e.id = id THEN UpdatedRow(e, updates, t) ELSE e : e \in es}

\* updateEntry: no field given means no statement is run.
updateEntry(es, id, updates, t) ==
  IF DOMAIN updates = {}
  THEN es
  ELSE {IF e.id = id THEN UpdatedRow(e, updates, t) ELSE e : e \in es}

\* Variant: positions counted from one.
reorderEntries_OneBased(es, orderedIds) ==
  {IF e.id \in Range(orderedIds)
   THEN [e EXCEPT !.position =
           Some(Max({i \in DOMAIN orderedIds : orderedIds[i] = e.id}))]
   ELSE e : e \in es}

\* reorderEntries: one transaction; UPDATE position = index WHERE id = ids[index],
\* in order, so a repeated id keeps its last index.
reorderEntries(es, orderedIds) ==
  {IF e.id \in Range(orderedIds)
   THEN [e EXCEPT !.position =
           Some(Max({i \in DOMAIN orderedIds : orderedIds[i] = e.id}) - 1)]
   ELSE e : e \in es}

\* Variant: the statements run outside any transaction, so the writes made
\* before a failure stay.
reorderTransaction_NoRollback(es, orderedIds, failAt) ==
  IF failAt = NULL
  THEN reorderEntries(es, orderedIds)
  ELSE reorderEntries(es, SubSeq(orderedIds, 1, failAt[1]))

\* reorder(orderedIds) under db.transaction: failAt is NULL when every
\* statement and the commit go through, and otherwise the number of
\* statements run before one throws (or the process stops); the transaction
\* is then rolled back.
reorderTransaction(es, orderedIds, failAt) ==
  IF failAt = NULL THEN reorderEntries(es, orderedIds) ELSE es

\* Variant: the rows behind the deleted one moved up to close the gap.
deleteEntry_Renumber(es, id) ==
  {IF \E d \in getEntryById(es, id) :
        d.position # NULL /\ e.position # NULL
          /\ e.position[1] > d.position[1]
   THEN [e EXCEPT !.position = Some(e.position[1] - 1)]
   ELSE e : e \in {x \in es : x.id # id}}

deleteEntry(es, id) == {e \in es : e.id # id}

\* result.changes of the DELETE
deleteChanges(es, id) == Cardinality(getEntryById(es, id))

\* Variant: the disabled rows not counted.
getNextPosition_ActiveOnly(es) ==
  LET ps == {e.position[1] :
               e \in {x \in es : x.position # NULL /\ x.disabled = 0}}
  IN IF ps = {} THEN 0 ELSE Max(ps) + 1

getNextPosition(es) ==
  LET ps == {e.position[1] : e \in {x \in es : x.position # NULL}}
  IN IF ps = {} THEN 0 ELSE Max(ps) + 1

\* ORDER BY: the rows of S as a sequence, smallest key first (SQLite breaks
\* ties by rowid, which follows insertion, as the ids here do).
RECURSIVE OrderBy(_, _)
OrderBy(S, key) ==
  IF S = {} THEN <<>>
  ELSE LET first == CHOOSE e \in S :
                      \A f \in S : key[e] < key[f]
                                      \/ (key[e] = key[f] /\ e.id <= f.id)
       IN <<first>> \o OrderBy(S \ {first}, key)

ActiveRows(es) == {e \in es : e.disabled = 0 /\ e.position # NULL}

\* Variant: the staging list taken by position alone.
StagingRows_AnyDisabled(es) == {e \in es : e.position = NULL}

StagingRows(es) == {e \in es : e.disabled = 0 /\ e.position = NULL}

DisabledRows(es) == {e \in es : e.disabled = 1}

getActiveEntries(es) ==
  OrderBy(ActiveRows(es), [e \in ActiveRows(es) |-> e.position[1]])

\* ORDER BY created_at DESC
getStagingEntries(es) ==
  OrderBy(StagingRows(es), [e \in StagingRows(es) |-> 0 - e.created_at])

\* ORDER BY updated_at DESC
getDisabledEntries(es) ==
  OrderBy(DisabledRows(es), [e \in DisabledRows(es) |-> 0 - e.updated_at])

PathsOf(es) == {e.dropbox_path : e \in es}

\* CASE WHEN disabled = 1 THEN 2 WHEN position IS NULL THEN 1 ELSE 0 END
Tier(e) == IF e.disabled = 1 THEN 2 ELSE IF e.position = NULL THEN 1 ELSE 0

\* position ASC: SQLite puts NULL before every number.
PositionKey(e) == IF e.position = NULL THEN -1 ELSE e.position[1]

\* ORDER BY tier, position ASC, created_at DESC: e comes no later than f
\* (rows equal on all three keys come out in rowid order).
AllBefore(e, f) ==
  \/ Tier(e) < Tier(f)
  \/ /\ Tier(e) = Tier(f)
     /\ \/ PositionKey(e) < PositionKey(f)
        \/ /\ PositionKey(e) = PositionKey(f)
           /\ \/ e.created_at > f.created_at
              \/ e.created_at = f.created_at /\ e.id <= f.id

RECURSIVE getAllEntries(_)
getAllEntries(es) ==
  IF es = {} THEN <<>>
  ELSE LET first == CHOOSE e \in es : \A f \in es : AllBefore(e, f)
       IN <<first>> \o getAllEntries(es \ {first})

(***************************************************************************)
(* Remote listing adapter: listMediaFiles                                  *)
(***************************************************************************)
\* One DropboxFile per media object, hasNarration from the sibling object.
DropboxFile(path) == [path |-> path, hasNarration |-> path \in remoteNarration]

\* The files listMediaFiles returns for the folder as it is. Dropbox fixes no
\* order: the array is kept as the set of its elements, and the order in which
\* the caller's loop meets them is chosen when the loop runs.
listMediaFiles == {DropboxFile(path) : path \in remoteFiles}

ListedPaths(files) == {f.path : f \in files}

(***************************************************************************)
(* Reconciliation: syncFromDropbox                                         *)
(***************************************************************************)
NoResult == [status |-> "none", added |-> 0, removed |-> 0, unchanged |-> 0]

\* Variant: the loop without its existence test.
IsNewFile_Always(file, existingPaths) == TRUE

\* The test of the loop: the file's path is not among the rows read at the
\* start of the pass.
IsNewFile(file, existingPaths) == file.path \notin existingPaths

\* Variant: the first branch as it was before narration flags were synced:
\* createEntry alone.
SyncAdd_NoNarration(file, st, t) ==
  LET id == st.nextId + 1
      c == createEntry(st.entries, id, file.path, t)
  IN IF ~c.ok
     THEN [st EXCEPT !.error = "unique"]
     ELSE IF st.budget = 0
     THEN [st EXCEPT !.error = "write"]
     ELSE [st EXCEPT !.entries = c.entries, !.nextId = id,
                     !.budget = @ - 1, !.added = @ + 1]

\* The first branch of the loop. "unique" is createEntry throwing on the
\* UNIQUE constraint. st.budget is the number of other catalog writes that
\* still succeed: one attempted at budget 0 throws ("write", the database
\* refusing it for a reason of its own).
SyncAdd(file, st, t) ==
  LET id == st.nextId + 1
      c == createEntry(st.entries, id, file.path, t)
  IN IF ~c.ok
     THEN [st EXCEPT !.error = "unique"]
     ELSE IF st.budget = 0
     THEN [st EXCEPT !.error = "write"]
     ELSE IF file.hasNarration
          THEN IF st.budget = 1
               THEN [st EXCEPT !.entries = c.entries, !.nextId = id,
                               !.budget = 0, !.error = "write"]
               ELSE [st EXCEPT
                       !.entries = updateEntry(c.entries, id,
                                      [has_narration |-> TRUE], t),
                       !.nextId = id, !.budget = @ - 2, !.added = @ + 1]
          ELSE [st EXCEPT !.entries = c.entries, !.nextId = id,
                          !.budget = @ - 1, !.added = @ + 1]

\* Variant: the flags compared without `!!`, a number against a boolean,
\* which never agree: the row is rewritten on every pass.
SyncExisting_NoCoercion(file, st, t) ==
  LET found == getEntryByPath(st.entries, file.path)
  IN IF found = {}
     THEN [st EXCEPT !.unchanged = @ + 1]
     ELSE IF st.budget = 0
          THEN [st EXCEPT !.error = "write"]
          ELSE LET entry == CHOOSE e \in found : TRUE
               IN [st EXCEPT
                     !.entries = updateEntry(st.entries, entry.id,
                                    [has_narration |-> file.hasNarration], t),
                     !.budget = @ - 1, !.unchanged = @ + 1]

\* The second branch: the narration flag of the row that has the path.
SyncExisting(file, st, t) ==
  LET found == getEntryByPath(st.entries, file.path)
      stale == {e \in found : (e.has_narration # 0) # file.hasNarration}
  IN IF stale = {}
     THEN [st EXCEPT !.unchanged = @ + 1]
     ELSE IF st.budget = 0
          THEN [st EXCEPT !.error = "write"]
          ELSE LET entry == CHOOSE e \in stale : TRUE
               IN [st EXCEPT
                     !.entries = updateEntry(st.entries, entry.id,
                                    [has_narration |-> file.hasNarration], t),
                     !.budget = @ - 1, !.unchanged = @ + 1]

RECURSIVE SyncLoop(_, _, _, _)
SyncLoop(files, existingPaths, st, t) ==
  IF files = <<>> \/ st.error # "none"
  THEN st
  ELSE LET file == Head(files)
           next == IF IsNewFile(file, existingPaths)
                   THEN SyncAdd(file, st, t)
                   ELSE SyncExisting(file, st, t)
       IN SyncLoop(Tail(files), existingPaths, next, t)

\* Variant: the second loop walking the listing instead of the rows.
CountRemoved_Swapped(existingEntries, dropboxPaths) ==
  Cardinality(dropboxPaths \ PathsOf(existingEntries))

\* The second loop: rows read at the start whose path is not listed.
CountRemoved(existingEntries, dropboxPaths) ==
  Cardinality({e \in existingEntries : e.dropbox_path \notin dropboxPaths})

\* Variant: the second loop deleting the rows it counts.
syncFromDropbox_AutoDelete(dropboxFiles, es, ids, budget, t) ==
  LET dropboxPaths == ListedPaths(Range(dropboxFiles))
      st == SyncLoop(dropboxFiles, PathsOf(es),
                     [entries |-> es, nextId |-> ids, added |-> 0,
                      unchanged |-> 0, budget |-> budget, error |-> "none"], t)
  IN [entries |-> IF st.error # "none" THEN st.entries
                  ELSE {e \in st.entries : e.dropbox_path \in dropboxPaths},
      nextId |-> st.nextId, error |-> st.error,
      added |-> st.added, unchanged |-> st.unchanged,
      removed |-> IF st.error # "none" THEN 0
                  ELSE CountRemoved(es, dropboxPaths)]

\* Variant: the loop inside one db.transaction, rolled back by a throw.
syncFromDropbox_Transaction(dropboxFiles, es, ids, budget, t) ==
  LET dropboxPaths == ListedPaths(Range(dropboxFiles))
      st == SyncLoop(dropboxFiles, PathsOf(es),
                     [entries |-> es, nextId |-> ids, added |-> 0,
                      unchanged |-> 0, budget |-> budget, error |-> "none"], t)
  IN [entries |-> IF st.error # "none" THEN es ELSE st.entries,
      nextId |-> st.nextId, error |-> st.error,
      added |-> st.added, unchanged |-> st.unchanged,
      removed |-> IF st.error # "none" THEN 0
                  ELSE CountRemoved(es, dropboxPaths)]

\* What the pass leaves once its first loop has ended in st: the second loop
\* runs only if nothing was thrown.
SyncOutcome(st, existingEntries, dropboxPaths) ==
  [entries |-> st.entries, nextId |-> st.nextId, error |-> st.error,
   added |-> st.added, unchanged |-> st.unchanged,
   removed |-> IF st.error # "none" THEN 0
               ELSE CountRemoved(existingEntries, dropboxPaths)]

\* syncFromDropbox after its await: everything up to the return or the throw.
syncFromDropbox(dropboxFiles, es, ids, budget, t) ==
  LET existingEntries == es
      dropboxPaths == ListedPaths(Range(dropboxFiles))
      existingPaths == PathsOf(existingEntries)
  IN SyncOutcome(SyncLoop(dropboxFiles, existingPaths,
                          [entries |-> es, nextId |-> ids, added |-> 0,
                           unchanged |-> 0, budget |-> budget,
                           error |-> "none"], t),
                 existingEntries, dropboxPaths)

(***************************************************************************)
(* Credential cache: getDropboxClient                                      *)
(***************************************************************************)
\* new Dropbox({...}): a handle that is none of the earlier ones.
NewClient == IF cachedClient = NULL THEN 1 ELSE cachedClient[1] + 1

\* Variant: the cached handle kept until the very instant it expires.
getDropboxClient_NoBuffer(t) ==
  IF cachedClient # NULL /\ tokenExpiry > t
  THEN [ok |-> TRUE, client |-> cachedClient,
        cachedClient |-> cachedClient, tokenExpiry |-> tokenExpiry]
  ELSE IF ~credentials
       THEN [ok |-> FALSE, client |-> NULL,
             cachedClient |-> cachedClient, tokenExpiry |-> tokenExpiry]
       ELSE [ok |-> TRUE, client |-> Some(NewClient),
             cachedClient |-> Some(NewClient), tokenExpiry |-> t + FOUR_HOURS]

\* Variant: the handle built from whatever the environment holds.
getDropboxClient_Unchecked(t) ==
  IF cachedClient # NULL /\ tokenExpiry > t + FIVE_MINUTES
  THEN [ok |-> TRUE, client |-> cachedClient,
        cachedClient |-> cachedClient, tokenExpiry |-> tokenExpiry]
  ELSE [ok |-> TRUE, client |-> Some(NewClient),
        cachedClient |-> Some(NewClient), tokenExpiry |-> t + FOUR_HOURS]

\* getDropboxClient called at time t: what it returns (client, or ok = FALSE
\* for the thrown 'Dropbox credentials not configured') and what it leaves in
\* cachedClient and tokenExpiry.
getDropboxClient(t) ==
  IF cachedClient # NULL /\ tokenExpiry > t + FIVE_MINUTES
  THEN [ok |-> TRUE, client |-> cachedClient,
        cachedClient |-> cachedClient, tokenExpiry |-> tokenExpiry]
  ELSE IF ~credentials
       THEN [ok |-> FALSE, client |-> NULL,
             cachedClient |-> cachedClient, tokenExpiry |-> tokenExpiry]
       ELSE [ok |-> TRUE, client |-> Some(NewClient),
             cachedClient |-> Some(NewClient), tokenExpiry |-> t + FOUR_HOURS]

(***************************************************************************)
(* Temporary links: getTemporaryLink and the narration writes               *)
(***************************************************************************)
NoClientCall == [made |-> FALSE, at |-> 0, ok |-> FALSE, client |-> NULL]

NoLinkCall ==
  [pc |-> "idle", kind |-> "none", path |-> "", now |-> 0, status |-> 0,
   link |-> NULL, overtaken |-> FALSE]

NoNarrCall ==
  [pc |-> "idle", kind |-> "none", id |-> 0, mediaPath |-> "", status |-> 0,
   error |-> NULL]

\* The test at the head of getTemporaryLink: a cached link not yet expired.
CacheHit(cache, path, t) == cache[path] # NULL /\ cache[path][1].expiry > t

\* Variant: the link cached for as long as the remote store honours it.
CacheLink_FourHours(cache, path, link, t) ==
  [cache EXCEPT ![path] = Some([link |-> link, expiry |-> t + FOUR_HOURS])]

\* linkCache.set(path, {link, expiry: now + 3h}), now read when the call began.
CacheLink(cache, path, link, t) ==
  [cache EXCEPT ![path] = Some([link |-> link, expiry |-> t + THREE_HOURS])]

\* Variant: the eviction keyed by the media path.
InvalidateLink_MediaKey(cache, mediaPath) ==
  [cache EXCEPT ![mediaPath] = NULL]

\* linkCache.delete(narrationPath) at the end of both narration writes.
InvalidateLink(cache, mediaPath) ==
  [cache EXCEPT ![getNarrationPath(mediaPath)] = NULL]

\* Errors a Dropbox request rejects with: an HTTP status, or none at all
\* (the request never got an answer); a 409 is the folder reporting that the
\* path does not exist (path_lookup/not_found), or another conflict
\* (too_many_write_operations).
RemoteErrors ==
  {[hasStatus |-> TRUE, status |-> 409, notFound |-> TRUE],
   [hasStatus |-> TRUE, status |-> 409, notFound |-> FALSE],
   [hasStatus |-> TRUE, status |-> 500, notFound |-> FALSE],
   [hasStatus |-> FALSE, status |-> 0, notFound |-> FALSE]}

\* The test in deleteNarration's catch: the error is thrown again.
Rethrown(error) == error.hasStatus /\ error.status # 409

(***************************************************************************)
(* Initial state. The database file and the Dropbox folder outlive the     *)
(* process: it starts with the rows earlier runs left and with whatever    *)
(* the folder holds; the module-level caches start empty.                  *)
(***************************************************************************)
SeedStyles == {"absent", "active", "disabled"}

\* A row as earlier syncs and edits leave it: created by a pass, then
\* promoted, titled and narrated ("active") or promoted and disabled.
SeedRow(id, path, k, style) ==
  LET e == NewEntry(id, path, 0)
  IN IF style = "active"
     THEN UpdatedRow(e, [title |-> Some("t"), transcript |-> Some("s"),
                         position |-> Some(k), has_narration |-> TRUE], 0)
     ELSE UpdatedRow(e, [position |-> Some(k), disabled |-> TRUE], 0)

\* The rows for a choice of style per path; ids and positions in path order.
SeedCatalog(style) ==
  LET present(i) == style[i] # "absent"
      rank(i) == Cardinality({j \in 1..i : present(j)})
  IN {SeedRow(rank(i), PathNames[i], rank(i) - 1, style[i]) :
        i \in {j \in 1..NumPaths : present(j)}}

SeedCatalogs == {SeedCatalog(style) : style \in [1..NumPaths -> SeedStyles]}

Init ==
  /\ entries \in SeedCatalogs
  /\ nextId = Cardinality(entries)
  /\ now = 0
  /\ remoteFiles \in SUBSET Paths
  /\ remoteNarration \in SUBSET remoteFiles
  /\ syncPc = [p \in Procs |-> "idle"]
  /\ syncListing = [p \in Procs |-> {}]
  /\ syncResult = [p \in Procs |-> NoResult]
  /\ putCall = [q \in Putters |-> NoPutCall]
  /\ credentials \in BOOLEAN
  /\ cachedClient = NULL
  /\ tokenExpiry = 0
  /\ linkCache = [path \in LinkPaths |-> NULL]
  /\ linksIssued = 0
  /\ linkAsked = [path \in LinkPaths |-> 0]
  /\ clientCall = NoClientCall
  /\ linkCall = [r \in Getters |-> NoLinkCall]
  /\ narrCall = [w \in Writers |-> NoNarrCall]
  /\ lastOp = [kind |-> "none", listing |-> {}, added |-> 0,
               overlap |-> FALSE, prev |-> <<>>]

(***************************************************************************)
(* Environment: the clock and the Dropbox folder.                          *)
(***************************************************************************)
Tick ==
  /\ now < MaxTime
  /\ now' = now + 1
  /\ UNCHANGED <<catalogVars, remoteVars, syncVars, clientVars, linkVars>>

\* The instants at which the clock is read: those within five minutes of a
\* multiple of the link lifetime or of the token lifetime.
ClockEnd == MaxTime * FOUR_HOURS

Instants ==
  {t \in 0..ClockEnd :
     \/ t % THREE_HOURS \in {0, FIVE_MINUTES, THREE_HOURS - FIVE_MINUTES}
     \/ t % FOUR_HOURS \in {0, FIVE_MINUTES, FOUR_HOURS - 2 * FIVE_MINUTES,
                             FOUR_HOURS - FIVE_MINUTES}}

\* Time passes until instant t.
Advance(t) ==
  /\ t \in Instants
  /\ t > now
  /\ now' = t
  /\ UNCHANGED <<catalogVars, remoteVars, syncVars, clientVars, linkVars>>

\* process.env changes: the three Dropbox variables all set (b), or one unset.
SetCredentials(b) ==
  /\ credentials # b
  /\ credentials' = b
  /\ UNCHANGED <<catalogVars, now, remoteVars, syncVars, cachedClient,
                 tokenExpiry, clientCall, linkVars>>

\* A call of getDropboxClient, whoever makes it.
GetClient ==
  /\ \E c \in {getDropboxClient(now)} :
        /\ cachedClient' = c.cachedClient
        /\ tokenExpiry' = c.tokenExpiry
        /\ clientCall' = [made |-> TRUE, at |-> now, ok |-> c.ok,
                          client |-> c.client]
  /\ UNCHANGED <<catalogVars, now, remoteVars, syncVars, credentials, linkVars>>

RemoteAddFile(path) ==
  /\ path \notin remoteFiles
  /\ remoteFiles' = remoteFiles \cup {path}
  /\ UNCHANGED <<catalogVars, now, remoteNarration, syncVars, clientVars, linkVars>>

(***************************************************************************)
(* POST /api/edit/entries/sync                                             *)
(***************************************************************************)
SyncError(cause, added, unchanged) ==
  [status |-> cause, added |-> added, removed |-> 0, unchanged |-> unchanged]

\* The request up to the listing request sent by listMediaFiles; the folder
\* answers with its content at that time.
SyncStart(p) ==
  /\ syncPc[p] # "listing"
  /\ \E c \in {getDropboxClient(now)} :
        /\ cachedClient' = c.cachedClient
        /\ tokenExpiry' = c.tokenExpiry
        /\ IF c.ok
           THEN /\ syncPc' = [syncPc EXCEPT ![p] = "listing"]
                /\ syncListing' = [syncListing EXCEPT ![p] = listMediaFiles]
                /\ syncResult' = [syncResult EXCEPT ![p] = NoResult]
           ELSE /\ syncPc' = [syncPc EXCEPT ![p] = "failed"]
                /\ syncListing' = [syncListing EXCEPT ![p] = {}]
                /\ syncResult' = [syncResult EXCEPT
                                    ![p] = SyncError("credentials", 0, 0)]
  /\ UNCHANGED <<catalogVars, now, remoteVars, putCall, credentials, clientCall,
                 linkVars>>

\* filesListFolder rejects: syncFromDropbox throws at its await.
SyncListFail(p) ==
  /\ syncPc[p] = "listing"
  /\ syncPc' = [syncPc EXCEPT ![p] = "failed"]
  /\ syncListing' = [syncListing EXCEPT ![p] = {}]
  /\ syncResult' = [syncResult EXCEPT ![p] = SyncError("remote", 0, 0)]
  /\ UNCHANGED <<catalogVars, now, remoteVars, putCall, clientVars, linkVars>>

\* History of a pass: its listing, the rows it had counted as added when it
\* ended, whether another request was waiting for its listing meanwhile, and
\* the same of the pass before it when that pass had the same listing and
\* nothing else was called in between.
PassOp(p, r) ==
  [kind |-> IF r.error # "none" THEN "syncFailed" ELSE "sync",
   listing |-> syncListing[p],
   added |-> r.added,
   overlap |-> \E q \in Procs \ {p} : syncPc[q] = "listing",
   prev |-> IF lastOp.kind \in {"sync", "syncFailed"}
               /\ lastOp.listing = syncListing[p]
            THEN <<lastOp.kind, lastOp.added, lastOp.overlap>>
            ELSE <<>>]

\* The catalog writes a pass over the files makes when none is refused: at
\* most two for a file.
WritesOf(dropboxFiles, es, ids, t) ==
  2 * Len(dropboxFiles)
    - SyncLoop(dropboxFiles, PathsOf(es),
               [entries |-> es, nextId |-> ids, added |-> 0, unchanged |-> 0,
                budget |-> 2 * Len(dropboxFiles), error |-> "none"], t).budget

\* The listing arrives: the rest of syncFromDropbox runs without an await.
\* The database refuses the pass's write number budget + 1, or none of them.
SyncRun(p) ==
  /\ syncPc[p] = "listing"
  /\ \E dropboxFiles \in Orderings(syncListing[p]) :
     \E budget \in 0..WritesOf(dropboxFiles, entries, nextId, now) :
       \E r \in {syncFromDropbox(dropboxFiles, entries, nextId, budget, now)} :
          /\ r.nextId <= MaxIds
          /\ entries' = r.entries
          /\ nextId' = r.nextId
          /\ syncPc' = [syncPc EXCEPT
                          ![p] = IF r.error # "none" THEN "failed" ELSE "done"]
          /\ syncResult' = [syncResult EXCEPT ![p] =
                IF r.error # "none"
                THEN SyncError(r.error, r.added, r.unchanged)
                ELSE [status |-> "ok", added |-> r.added,
                      removed |-> r.removed, unchanged |-> r.unchanged]]
          /\ lastOp' = PassOp(p, r)
  /\ syncListing' = [syncListing EXCEPT ![p] = {}]
  /\ UNCHANGED <<now, remoteVars, putCall, clientVars, linkVars>>

\* Variant: the route answering with the counters whatever happened.
SyncResponse_NoCatch(p) ==
  [status |-> 200,
   body |-> [added |-> syncResult[p].added,
             removed |-> syncResult[p].removed,
             unchanged |-> syncResult[p].unchanged]]

\* The response of the route: the counts, or 500 'Sync failed'.
SyncResponse(p) ==
  IF syncResult[p].status = "ok"
  THEN [status |-> 200,
        body |-> [added |-> syncResult[p].added,
                  removed |-> syncResult[p].removed,
                  unchanged |-> syncResult[p].unchanged]]
  ELSE [status |-> 500, body |-> [error |-> "Sync failed"]]

(***************************************************************************)
(* Editor calls into the catalog.                                          *)
(***************************************************************************)
EditOp(kind) ==
  [kind |-> kind, listing |-> {}, added |-> 0, overlap |-> FALSE, prev |-> <<>>]

OtherOp == EditOp("other")

Ids == 1..nextId

Statuses == {"active", "staging", "disabled"}

\* Request bodies that change the status of an entry.
StatusBodies == {[status |-> s] : s \in Statuses}

\* Variant: activation always takes the next free position.
PutUpdates_AlwaysNext(entry, body, es) ==
  IF body.status = "active"
  THEN [position |-> Some(getNextPosition(es)), disabled |-> FALSE]
  ELSE IF body.status = "staging"
       THEN [disabled |-> FALSE, position |-> NULL]
       ELSE [disabled |-> TRUE]

\* Variant: staging keeps the position.
PutUpdates_KeepPosition(entry, body, es) ==
  IF body.status = "active"
  THEN IF entry.position = NULL
       THEN [position |-> Some(getNextPosition(es)), disabled |-> FALSE]
       ELSE [disabled |-> FALSE]
  ELSE IF body.status = "staging"
       THEN [disabled |-> FALSE]
       ELSE [disabled |-> TRUE]

\* Request bodies that hide or show an entry and touch nothing else.
DisabledBodies == {[disabled |-> b] : b \in BOOLEAN}

\* The patch PUT /api/edit/entries/[id] builds from the request body.
PutUpdates(entry, body, es) ==
  LET u1 == IF HasField(body, "title") THEN [title |-> body.title] ELSE <<>>
      u2 == IF HasField(body, "transcript")
            THEN u1 @@ [transcript |-> body.transcript] ELSE u1
      u3 == IF HasField(body, "disabled")
            THEN u2 @@ [disabled |-> body.disabled] ELSE u2
  IN IF ~HasField(body, "status") THEN u3
     ELSE IF body.status = "active"
          THEN IF entry.position = NULL
               THEN [position |-> Some(getNextPosition(es)),
                     disabled |-> FALSE] @@ u3
               ELSE [disabled |-> FALSE] @@ u3
          ELSE IF body.status = "staging"
               THEN [disabled |-> FALSE, position |-> NULL] @@ u3
               ELSE IF body.status = "disabled"
                    THEN [disabled |-> TRUE] @@ u3
                    ELSE u3

\* PUT /api/edit/entries/[id] on a row that exists: the patch, applied.
PutRows(id, body) ==
  \E entry \in getEntryById(entries, id) :
    \E updates \in {PutUpdates(entry, body, entries)} :
       /\ HasField(updates, "position") /\ updates.position # NULL
            => updates.position[1] <= MaxPosition
       /\ entries' = updateEntry(entries, id, updates, now)

PutEntry(id, body) ==
  /\ PutRows(id, body)
  /\ lastOp' = OtherOp
  /\ UNCHANGED <<nextId, now, remoteVars, syncVars, clientVars, linkVars>>

\* What is kept of a status change: the row, the status asked for, and the
\* position and disabled flag the row had.
StatusOp(id, status) ==
  EditOp("status") @@
    [id |-> id, status |-> status,
     was |-> {[position |-> e.position, disabled |-> e.disabled] :
                e \in getEntryById(entries, id)}]

\* PUT /api/edit/entries/[id] with {status}.
PutStatus(id, status) ==
  /\ PutRows(id, [status |-> status])
  /\ lastOp' = StatusOp(id, status)
  /\ UNCHANGED <<nextId, now, remoteVars, syncVars, clientVars, linkVars>>

\* PUT /api/edit/entries/[id] with {status} up to its awaits of params and
\* request.json(): the request is in flight and has not touched the catalog.
PutArrive(q, id, status) ==
  /\ putCall[q].pc # "parsing"
  /\ putCall' = [x \in Putters |->
                   IF x = q
                   THEN [pc |-> "parsing", id |-> id, status |-> status,
                         code |-> 0, assigned |-> NULL, with |-> {}]
                   ELSE [putCall[x] EXCEPT !.with = @ \ {q}]]
  /\ UNCHANGED <<catalogVars, now, remoteVars, syncPc, syncListing, syncResult,
                 clientVars, linkVars>>

\* Variant: getNextPosition read before the awaits, the row written after.
\* EarlierRows is the catalog as the request would have read it before the
\* requests handled while it was in flight wrote their rows.
PutHandle_ReadEarly(q) ==
  LET EarlierRows ==
        {e \in entries :
           ~\E x \in Putters \ {q} :
              /\ putCall[x].pc = "done"
              /\ q \in putCall[x].with
              /\ putCall[x].id = e.id}
  IN
  /\ putCall[q].pc = "parsing"
  /\ IF getEntryById(entries, putCall[q].id) = {}
     THEN /\ putCall' = [putCall EXCEPT ![q].pc = "done", ![q].code = 404]
          /\ UNCHANGED <<entries, lastOp>>
     ELSE \E entry \in getEntryById(entries, putCall[q].id) :
          \E updates \in {PutUpdates(entry, [status |-> putCall[q].status],
                                      EarlierRows)} :
            /\ HasField(updates, "position") /\ updates.position # NULL
                 => updates.position[1] <= MaxPosition
            /\ entries' = updateEntry(entries, putCall[q].id, updates, now)
            /\ lastOp' = OtherOp
            /\ putCall' = [putCall EXCEPT
                  ![q].pc = "done", ![q].code = 200,
                  ![q].assigned = IF HasField(updates, "position")
                                  THEN updates.position ELSE NULL,
                  ![q].with = {x \in Putters : putCall[x].pc = "parsing"}
                                \ {q}]
  /\ UNCHANGED <<nextId, now, remoteVars, syncPc, syncListing, syncResult,
                 clientVars, linkVars>>

\* The rest of the handler, which has no await: getEntryById, the 404
\* answer, the patch with getNextPosition, updateEntry. Kept of the request:
\* the position it assigned and the requests in flight when it ran.
PutHandle(q) ==
  /\ putCall[q].pc = "parsing"
  /\ IF getEntryById(entries, putCall[q].id) = {}
     THEN /\ putCall' = [putCall EXCEPT ![q].pc = "done", ![q].code = 404]
          /\ UNCHANGED <<entries, lastOp>>
     ELSE \E entry \in getEntryById(entries, putCall[q].id) :
          \E updates \in {PutUpdates(entry, [status |-> putCall[q].status],
                                      entries)} :
            /\ HasField(updates, "position") /\ updates.position # NULL
                 => updates.position[1] <= MaxPosition
            /\ entries' = updateEntry(entries, putCall[q].id, updates, now)
            /\ lastOp' = OtherOp
            /\ putCall' = [putCall EXCEPT
                  ![q].pc = "done", ![q].code = 200,
                  ![q].assigned = IF HasField(updates, "position")
                                  THEN updates.position ELSE NULL,
                  ![q].with = {x \in Putters : putCall[x].pc = "parsing"}
                                \ {q}]
  /\ UNCHANGED <<nextId, now, remoteVars, syncPc, syncListing, syncResult,
                 clientVars, linkVars>>

\* PUT /api/edit/entries/reorder
ReorderEntries(orderedIds) ==
  /\ entries' = reorderEntries(entries, orderedIds)
  /\ lastOp' = OtherOp
  /\ UNCHANGED <<nextId, now, remoteVars, syncVars, clientVars, linkVars>>

\* Bodies of the reorder request: lists of ids, known or not, repeats allowed.
IdLists == UNION {[1..n -> 1..MaxIds] : n \in 0..MaxReorder}

\* Where a reorder can stop short: nowhere, or after k statements.
FailPoints(orderedIds) == {NULL} \cup {Some(k) : k \in 0..Len(orderedIds)}

\* The single ids and the full orderings of the active rows: what the
\* editor's drag and drop sends, and the shortest partial lists.
EditorIdLists ==
  {<<>>} \cup {<<id>> : id \in 1..MaxIds}
         \cup Orderings({e.id : e \in ActiveRows(entries)})

\* What is kept of a reorder request: the list if it went through, and if
\* not, whether the statements run before the failure had moved a row.
ReorderOp(orderedIds, failAt) ==
  IF failAt = NULL
  THEN EditOp("reorder") @@ [ids |-> orderedIds]
  ELSE EditOp("reorderFailed") @@
         [undone |-> reorderEntries(entries, SubSeq(orderedIds, 1, failAt[1]))
                       # entries]

\* PUT /api/edit/entries/reorder with an array: the transaction, then the
\* active list as the answer, or the 500 answer if it threw.
PutReorder(orderedIds, failAt) ==
  /\ entries' = reorderTransaction(entries, orderedIds, failAt)
  /\ lastOp' = ReorderOp(orderedIds, failAt)
  /\ UNCHANGED <<nextId, now, remoteVars, syncVars, clientVars, linkVars>>

\* The patches updateEntry accepts: for each field, absent ({}) or one value.
PatchChoices ==
  [title : {{}, {NULL}, {Some("u")}},
   transcript : {{}, {NULL}, {Some("v")}},
   position : {{}, {NULL}} \cup {{Some(k)} : k \in 0..MaxPosition},
   disabled : {{}, {TRUE}, {FALSE}},
   has_narration : {{}, {TRUE}, {FALSE}}]

PatchFields == {"title", "transcript", "position", "disabled", "has_narration"}

PatchOf(c) ==
  [f \in {g \in PatchFields : c[g] # {}} |-> CHOOSE v \in c[f] : TRUE]

Patches == {PatchOf(c) : c \in PatchChoices}

\* A direct call of updateEntry, the first of the run: what it was given
\* and what it returned (getEntryById after the statement) are kept.
UpdateEntry(id, updates) ==
  /\ lastOp.kind = "none"
  /\ entries' = updateEntry(entries, id, updates, now)
  /\ lastOp' = EditOp("update") @@
                 [id |-> id, updates |-> updates,
                  returned |-> getEntryById(entries', id)]
  /\ UNCHANGED <<nextId, now, remoteVars, syncVars, clientVars, linkVars>>

DeleteEntry(id) ==
  /\ entries' = deleteEntry(entries, id)
  /\ lastOp' = OtherOp
  /\ UNCHANGED <<nextId, now, remoteVars, syncVars, clientVars, linkVars>>

\* A direct call of deleteEntry; what it returned is kept.
DeleteCall(id) ==
  /\ entries' = deleteEntry(entries, id)
  /\ lastOp' = EditOp("delete") @@
                 [id |-> id, returned |-> deleteChanges(entries, id) > 0]
  /\ UNCHANGED <<nextId, now, remoteVars, syncVars, clientVars, linkVars>>

\* A direct call of createEntry.
CreateEntry(dropboxPath) ==
  /\ nextId < MaxIds
  /\ \E c \in {createEntry(entries, nextId + 1, dropboxPath, now)} :
        /\ entries' = c.entries
        /\ nextId' = IF c.ok THEN nextId + 1 ELSE nextId
        /\ lastOp' = EditOp(IF c.ok THEN "create" ELSE "createFailed")
  /\ UNCHANGED <<now, remoteVars, syncVars, clientVars, linkVars>>

\* The lists the editor's drag and drop sends: the ids of the active rows,
\* each once, in the new order.
ActiveIdLists == Orderings({e.id : e \in ActiveRows(entries)})

(***************************************************************************)
(* GET /api/media/[id] and GET /api/narration/[id]                         *)
(***************************************************************************)
\* What the route answers when getTemporaryLink throws: the narration route
\* catches it as 'No narration'.
LinkErrorStatus(kind) == IF kind = "narration" THEN 404 ELSE 500

\* Variant: the disabled flag not looked at.
PublicEntry_Any(es, id) == getEntryById(es, id)

\* if (!entry || entry.disabled) 404: the row a public route goes on with.
PublicEntry(es, id) == {e \in getEntryById(es, id) : e.disabled = 0}

\* GET /api/entries: the active list.
EntriesGet(r) ==
  /\ linkCall[r].pc # "requesting"
  /\ linkCall' = [linkCall EXCEPT ![r] =
        [NoLinkCall EXCEPT !.pc = "done", !.kind = "list", !.status = 200]
          @@ [body |-> getActiveEntries(entries)]]
  /\ UNCHANGED <<catalogVars, now, remoteVars, syncVars, clientVars,
                 linkCache, linksIssued, linkAsked, narrCall>>

\* GET /api/entries/[id]: the row, or 404 when there is none to show.
EntryGet(r, id) ==
  /\ linkCall[r].pc # "requesting"
  /\ linkCall' = [linkCall EXCEPT ![r] =
        [NoLinkCall EXCEPT !.pc = "done", !.kind = "entry",
                           !.status = IF PublicEntry(entries, id) = {}
                                      THEN 404 ELSE 200]
          @@ [id |-> id, body |-> PublicEntry(entries, id)]]
  /\ UNCHANGED <<catalogVars, now, remoteVars, syncVars, clientVars,
                 linkCache, linksIssued, linkAsked, narrCall>>

\* The request up to the filesGetTemporaryLink request, or to its answer when
\* none is sent: getEntryById, the 404 test, the cache test, getDropboxClient.
LinkBegin(r, id, kind) ==
  /\ linkCall[r].pc # "requesting"
  /\ LET found == PublicEntry(entries, id)
     IN IF found = {}
        THEN /\ linkCall' = [linkCall EXCEPT ![r] =
                   [NoLinkCall EXCEPT !.pc = "done", !.kind = kind,
                                      !.status = 404]]
             /\ UNCHANGED <<cachedClient, tokenExpiry>>
        ELSE \E entry \in found :
             \E path \in {IF kind = "narration"
                          THEN getNarrationPath(entry.dropbox_path)
                          ELSE entry.dropbox_path} :
               IF CacheHit(linkCache, path, now)
               THEN /\ linkCall' = [linkCall EXCEPT ![r] =
                          [pc |-> "done", kind |-> kind, path |-> path,
                           now |-> now, status |-> 307,
                           link |-> Some(linkCache[path][1].link),
                           overtaken |-> FALSE]]
                    /\ UNCHANGED <<cachedClient, tokenExpiry>>
               ELSE \E c \in {getDropboxClient(now)} :
                      /\ cachedClient' = c.cachedClient
                      /\ tokenExpiry' = c.tokenExpiry
                      /\ linkCall' = [linkCall EXCEPT ![r] =
                            [pc |-> IF c.ok THEN "requesting" ELSE "failed",
                             kind |-> kind, path |-> path, now |-> now,
                             status |-> IF c.ok THEN 0
                                        ELSE LinkErrorStatus(kind),
                             link |-> NULL, overtaken |-> FALSE]]
  /\ UNCHANGED <<catalogVars, now, remoteVars, syncVars, credentials, clientCall,
                 linkCache, linksIssued, linkAsked, narrCall>>

MediaGet(r, id) == LinkBegin(r, id, "media")

NarrationGet(r, id) == LinkBegin(r, id, "narration")

\* The object a cache key names exists in the folder.
RemoteHas(path) ==
  \/ path \in remoteFiles
  \/ \E mediaPath \in remoteNarration : path = getNarrationPath(mediaPath)

\* The remote store answers with a link it has not issued before: the link
\* is cached with the expiry counted from the time the call began.
LinkReturn(r) ==
  /\ linkCall[r].pc = "requesting"
  /\ RemoteHas(linkCall[r].path)
  /\ linksIssued < MaxLinks
  /\ linksIssued' = linksIssued + 1
  /\ linkAsked' = [linkAsked EXCEPT ![linkCall[r].path] = linkCall[r].now]
  /\ linkCache' = CacheLink(linkCache, linkCall[r].path, linksIssued + 1,
                            linkCall[r].now)
  /\ linkCall' = [linkCall EXCEPT ![r].pc = "done", ![r].status = 307,
                                  ![r].link = Some(linksIssued + 1)]
  /\ UNCHANGED <<catalogVars, now, remoteVars, syncVars, clientVars, narrCall>>

\* filesGetTemporaryLink rejects: nothing is cached.
LinkFail(r) ==
  /\ linkCall[r].pc = "requesting"
  /\ linkCall' = [linkCall EXCEPT ![r].pc = "failed",
                                  ![r].status = LinkErrorStatus(linkCall[r].kind)]
  /\ UNCHANGED <<catalogVars, now, remoteVars, syncVars, clientVars,
                 linkCache, linksIssued, linkAsked, narrCall>>

(***************************************************************************)
(* POST and DELETE /api/edit/narration/[id]                                *)
(***************************************************************************)
\* Either route up to the request uploadNarration / deleteNarration sends:
\* getEntryById, the 404 answer, getDropboxClient.
NarrationBegin(w, id, kind) ==
  /\ narrCall[w].pc \notin {"sent", "applied"}
  /\ IF getEntryById(entries, id) = {}
     THEN /\ narrCall' = [narrCall EXCEPT ![w] =
                [pc |-> "done", kind |-> kind, id |-> id, mediaPath |-> "",
                 status |-> 404, error |-> NULL]]
          /\ UNCHANGED <<cachedClient, tokenExpiry>>
     ELSE \E entry \in getEntryById(entries, id) :
          \E c \in {getDropboxClient(now)} :
            /\ cachedClient' = c.cachedClient
            /\ tokenExpiry' = c.tokenExpiry
            /\ narrCall' = [narrCall EXCEPT ![w] =
                  [pc |-> IF c.ok THEN "sent" ELSE "failed", kind |-> kind,
                   id |-> id, mediaPath |-> entry.dropbox_path,
                   status |-> IF c.ok THEN 0 ELSE 500, error |-> NULL]]
  /\ UNCHANGED <<catalogVars, now, remoteVars, syncVars, credentials, clientCall,
                 linkCache, linksIssued, linkAsked, linkCall>>

NarrationPost(w, id) == NarrationBegin(w, id, "upload")

NarrationDelete(w, id) == NarrationBegin(w, id, "delete")

\* The folder takes the upload (mode overwrite).
RemoteUpload(w) ==
  /\ narrCall[w].pc = "sent"
  /\ narrCall[w].kind = "upload"
  /\ remoteNarration' = remoteNarration \cup {narrCall[w].mediaPath}
  /\ narrCall' = [narrCall EXCEPT ![w].pc = "applied"]
  /\ UNCHANGED <<catalogVars, now, remoteFiles, syncVars, clientVars,
                 linkCache, linksIssued, linkAsked, linkCall>>

\* The folder deletes the narration object it holds.
RemoteDelete(w) ==
  /\ narrCall[w].pc = "sent"
  /\ narrCall[w].kind = "delete"
  /\ narrCall[w].mediaPath \in remoteNarration
  /\ remoteNarration' = remoteNarration \ {narrCall[w].mediaPath}
  /\ narrCall' = [narrCall EXCEPT ![w].pc = "applied"]
  /\ UNCHANGED <<catalogVars, now, remoteFiles, syncVars, clientVars,
                 linkCache, linksIssued, linkAsked, linkCall>>

\* The patch each route applies once its write has returned.
NarrationPatch(kind) ==
  IF kind = "upload"
  THEN [has_narration |-> TRUE]
  ELSE [transcript |-> NULL, has_narration |-> FALSE]

\* The link requests still waiting for the remote store's answer when a
\* write of the same narration returns: marked as begun before it did.
Overtake(mediaPath) ==
  [r \in Getters |->
     IF linkCall[r].pc = "requesting"
        /\ linkCall[r].path = getNarrationPath(mediaPath)
     THEN [linkCall[r] EXCEPT !.overtaken = TRUE]
     ELSE linkCall[r]]

\* uploadNarration / deleteNarration returns and the route finishes: the cache
\* entry is dropped, the row patched, the answer is success.
NarrationFinish(w) ==
  /\ linkCache' = InvalidateLink(linkCache, narrCall[w].mediaPath)
  /\ entries' = updateEntry(entries, narrCall[w].id,
                            NarrationPatch(narrCall[w].kind), now)
  /\ lastOp' = OtherOp
  /\ linkCall' = Overtake(narrCall[w].mediaPath)
  /\ narrCall' = [narrCall EXCEPT ![w].pc = "done", ![w].status = 200]

\* The answer to the write arrives.
NarrationReturn(w) ==
  /\ narrCall[w].pc = "applied"
  /\ NarrationFinish(w)
  /\ UNCHANGED <<nextId, now, remoteVars, syncVars, clientVars,
                 linksIssued, linkAsked>>

\* The write rejects with error. uploadNarration throws it; deleteNarration
\* throws it again only if it has a status other than 409, and otherwise goes
\* on as if the object had been deleted.
NarrationError(w, error) ==
  /\ narrCall[w].pc \in {"sent", "applied"}
  /\ error.notFound =>
       /\ narrCall[w].kind = "delete"
       /\ narrCall[w].pc = "sent"
       /\ narrCall[w].mediaPath \notin remoteNarration
  /\ IF narrCall[w].kind = "delete" /\ ~Rethrown(error)
     THEN /\ linkCache' = InvalidateLink(linkCache, narrCall[w].mediaPath)
          /\ entries' = updateEntry(entries, narrCall[w].id,
                                    NarrationPatch(narrCall[w].kind), now)
          /\ lastOp' = OtherOp
          /\ linkCall' = Overtake(narrCall[w].mediaPath)
          /\ narrCall' = [narrCall EXCEPT ![w].pc = "done", ![w].status = 200,
                                          ![w].error = Some(error)]
     ELSE /\ narrCall' = [narrCall EXCEPT ![w].pc = "failed", ![w].status = 500,
                                          ![w].error = Some(error)]
          /\ UNCHANGED <<entries, lastOp, linkCache, linkCall>>
  /\ UNCHANGED <<nextId, now, remoteVars, syncVars, clientVars,
                 linksIssued, linkAsked>>

Next ==
  \/ \E path \in Paths : CreateEntry(path)
  \/ \E id \in Ids, body \in StatusBodies : PutEntry(id, body)
  \/ \E orderedIds \in ActiveIdLists : ReorderEntries(orderedIds)
  \/ \E id \in Ids : DeleteEntry(id)
  \/ SyncStart(1)
  \/ SyncListFail(1)
  \/ SyncRun(1)

\* A new database beside a folder that already holds media.
InitFresh ==
  /\ entries = {}
  /\ nextId = 0
  /\ now = 0
  /\ remoteFiles = Paths
  /\ remoteNarration = {}
  /\ syncPc = [p \in Procs |-> "idle"]
  /\ syncListing = [p \in Procs |-> {}]
  /\ syncResult = [p \in Procs |-> NoResult]
  /\ putCall = [q \in Putters |-> NoPutCall]
  /\ credentials = TRUE
  /\ cachedClient = NULL
  /\ tokenExpiry = 0
  /\ linkCache = [path \in LinkPaths |-> NULL]
  /\ linksIssued = 0
  /\ linkAsked = [path \in LinkPaths |-> 0]
  /\ clientCall = NoClientCall
  /\ linkCall = [r \in Getters |-> NoLinkCall]
  /\ narrCall = [w \in Writers |-> NoNarrCall]
  /\ lastOp = [kind |-> "none", listing |-> {}, added |-> 0,
               overlap |-> FALSE, prev |-> <<>>]

Spec == InitFresh /\ [][Next]_vars

NextSync ==
  \/ Tick
  \/ SyncStart(1)
  \/ SyncListFail(1)
  \/ SyncRun(1)

SpecSync == Init /\ [][NextSync]_vars

\* Two reconciliation requests at once, beside a folder that gains files.
NextOverlap ==
  \/ \E path \in Paths : RemoteAddFile(path)
  \/ \E p \in Procs : SyncStart(p)
  \/ \E p \in Procs : SyncListFail(p)
  \/ \E p \in Procs : SyncRun(p)

InitOverlap ==
  /\ entries = {}
  /\ nextId = 0
  /\ now = 0
  /\ remoteFiles = {PathNames[1]}
  /\ remoteNarration = {PathNames[1]}
  /\ syncPc = [p \in Procs |-> "idle"]
  /\ syncListing = [p \in Procs |-> {}]
  /\ syncResult = [p \in Procs |-> NoResult]
  /\ putCall = [q \in Putters |-> NoPutCall]
  /\ credentials = TRUE
  /\ cachedClient = NULL
  /\ tokenExpiry = 0
  /\ linkCache = [path \in LinkPaths |-> NULL]
  /\ linksIssued = 0
  /\ linkAsked = [path \in LinkPaths |-> 0]
  /\ clientCall = NoClientCall
  /\ linkCall = [r \in Getters |-> NoLinkCall]
  /\ narrCall = [w \in Writers |-> NoNarrCall]
  /\ lastOp = [kind |-> "none", listing |-> {}, added |-> 0,
               overlap |-> FALSE, prev |-> <<>>]

SpecOverlap == InitOverlap /\ [][NextOverlap]_vars

\* Link requests beside narration writes, over a catalog of placed rows the
\* last of which is disabled.
NextLink ==
  \/ \E r \in Getters, id \in Ids : NarrationGet(r, id)
  \/ \E r \in Getters : LinkReturn(r)
  \/ \E r \in Getters : LinkFail(r)
  \/ \E w \in Writers, id \in Ids : NarrationPost(w, id)
  \/ \E w \in Writers, id \in Ids : NarrationDelete(w, id)
  \/ \E w \in Writers : RemoteUpload(w)
  \/ \E w \in Writers : RemoteDelete(w)
  \/ \E w \in Writers : NarrationReturn(w)
  \/ \E w \in Writers, error \in RemoteErrors : NarrationError(w, error)

InitLink ==
  /\ entries = SeedCatalog([i \in 1..NumPaths |->
                              IF i = NumPaths THEN "disabled" ELSE "active"])
  /\ nextId = Cardinality(entries)
  /\ now = 0
  /\ remoteFiles = Paths
  /\ remoteNarration = {PathNames[1]}
  /\ syncPc = [p \in Procs |-> "idle"]
  /\ syncListing = [p \in Procs |-> {}]
  /\ syncResult = [p \in Procs |-> NoResult]
  /\ putCall = [q \in Putters |-> NoPutCall]
  /\ credentials \in BOOLEAN
  /\ cachedClient = NULL
  /\ tokenExpiry = 0
  /\ linkCache = [path \in LinkPaths |-> NULL]
  /\ linksIssued = 0
  /\ linkAsked = [path \in LinkPaths |-> 0]
  /\ clientCall = NoClientCall
  /\ linkCall = [r \in Getters |-> NoLinkCall]
  /\ narrCall = [w \in Writers |-> NoNarrCall]
  /\ lastOp = [kind |-> "none", listing |-> {}, added |-> 0,
               overlap |-> FALSE, prev |-> <<>>]

SpecLink == InitLink /\ [][NextLink]_vars

\* A reconciliation request beside narration writes.
NextNarrationSync ==
  \/ SyncStart(1)
  \/ SyncRun(1)
  \/ \E w \in Writers, id \in Ids : NarrationPost(w, id)
  \/ \E w \in Writers, id \in Ids : NarrationDelete(w, id)
  \/ \E w \in Writers : RemoteUpload(w)
  \/ \E w \in Writers : RemoteDelete(w)
  \/ \E w \in Writers : NarrationReturn(w)
  \/ \E w \in Writers, error \in RemoteErrors : NarrationError(w, error)

SpecNarrationSync == InitLink /\ [][NextNarrationSync]_vars

\* Link requests over hours.
NextTtl ==
  \/ \E t \in Instants : Advance(t)
  \/ \E r \in Getters, id \in Ids : MediaGet(r, id)
  \/ \E r \in Getters : LinkReturn(r)
  \/ \E r \in Getters : LinkFail(r)

SpecTtl == InitLink /\ [][NextTtl]_vars

\* The editor at work on a catalog earlier runs left.
NextEdit ==
  \/ \E id \in Ids, status \in Statuses : PutStatus(id, status)
  \/ \E orderedIds \in EditorIdLists :
       \E failAt \in FailPoints(orderedIds) : PutReorder(orderedIds, failAt)

InitEdit ==
  /\ entries \in SeedCatalogs
  /\ nextId = Cardinality(entries)
  /\ now = 0
  /\ remoteFiles = Paths
  /\ remoteNarration = {}
  /\ syncPc = [p \in Procs |-> "idle"]
  /\ syncListing = [p \in Procs |-> {}]
  /\ syncResult = [p \in Procs |-> NoResult]
  /\ putCall = [q \in Putters |-> NoPutCall]
  /\ credentials = TRUE
  /\ cachedClient = NULL
  /\ tokenExpiry = 0
  /\ linkCache = [path \in LinkPaths |-> NULL]
  /\ linksIssued = 0
  /\ linkAsked = [path \in LinkPaths |-> 0]
  /\ clientCall = NoClientCall
  /\ linkCall = [r \in Getters |-> NoLinkCall]
  /\ narrCall = [w \in Writers |-> NoNarrCall]
  /\ lastOp = [kind |-> "none", listing |-> {}, added |-> 0,
               overlap |-> FALSE, prev |-> <<>>]

SpecEdit == InitEdit /\ [][NextEdit]_vars

\* Status changes sent at once.
NextPut ==
  \/ \E q \in Putters, id \in 1..MaxIds, status \in Statuses :
       PutArrive(q, id, status)
  \/ \E q \in Putters : PutHandle(q)

\* The catalog a first reconciliation pass leaves: every file in staging.
InitPut ==
  /\ entries = {NewEntry(i, PathNames[i], 0) : i \in 1..NumPaths}
  /\ nextId = Cardinality(entries)
  /\ now = 0
  /\ remoteFiles = Paths
  /\ remoteNarration = {}
  /\ syncPc = [p \in Procs |-> "idle"]
  /\ syncListing = [p \in Procs |-> {}]
  /\ syncResult = [p \in Procs |-> NoResult]
  /\ putCall = [q \in Putters |-> NoPutCall]
  /\ credentials = TRUE
  /\ cachedClient = NULL
  /\ tokenExpiry = 0
  /\ linkCache = [path \in LinkPaths |-> NULL]
  /\ linksIssued = 0
  /\ linkAsked = [path \in LinkPaths |-> 0]
  /\ clientCall = NoClientCall
  /\ linkCall = [r \in Getters |-> NoLinkCall]
  /\ narrCall = [w \in Writers |-> NoNarrCall]
  /\ lastOp = [kind |-> "none", listing |-> {}, added |-> 0,
               overlap |-> FALSE, prev |-> <<>>]

SpecPut == InitPut /\ [][NextPut]_vars

\* Reorder requests and reconciliation passes, the two renumbering paths.
NextRenumber ==
  \/ \E orderedIds \in EditorIdLists :
       \E failAt \in FailPoints(orderedIds) : PutReorder(orderedIds, failAt)
  \/ SyncStart(1)
  \/ SyncRun(1)

SpecRenumber == InitEdit /\ [][NextRenumber]_vars

\* One call of updateEntry, at any time, on a catalog earlier runs left.
NextUpdate ==
  \/ Tick
  \/ \E id \in 1..MaxIds, updates \in Patches : UpdateEntry(id, updates)

SpecUpdate == InitEdit /\ [][NextUpdate]_vars

\* Every path that writes a stored field of a row, the clock running.
NextTouch ==
  \/ Tick
  \/ \E id \in Ids, status \in Statuses : PutStatus(id, status)
  \/ \E orderedIds \in EditorIdLists :
       \E failAt \in FailPoints(orderedIds) : PutReorder(orderedIds, failAt)
  \/ SyncStart(1)
  \/ SyncRun(1)

SpecTouch == InitEdit /\ [][NextTouch]_vars

\* Deletions among status changes.
NextDelete ==
  \/ \E id \in Ids, status \in Statuses : PutStatus(id, status)
  \/ \E id \in 1..MaxIds : DeleteCall(id)

SpecDelete == InitEdit /\ [][NextDelete]_vars

\* The public routes, the editor changing statuses meanwhile.
NextPublic ==
  \/ \E r \in Getters : EntriesGet(r)
  \/ \E r \in Getters, id \in 1..MaxIds : EntryGet(r, id)
  \/ \E r \in Getters, id \in 1..MaxIds : MediaGet(r, id)
  \/ \E r \in Getters, id \in 1..MaxIds : NarrationGet(r, id)
  \/ \E r \in Getters : LinkReturn(r)
  \/ \E r \in Getters : LinkFail(r)
  \/ \E id \in Ids, body \in DisabledBodies : PutEntry(id, body)

SpecPublic == InitLink /\ [][NextPublic]_vars

\* Reorder requests of every shape on a catalog earlier runs left.
NextReorder ==
  \E orderedIds \in IdLists :
    \E failAt \in FailPoints(orderedIds) : PutReorder(orderedIds, failAt)

SpecReorder == InitEdit /\ [][NextReorder]_vars

\* Calls of getDropboxClient over hours, the environment changing meanwhile.
NextClient ==
  \/ \E t \in Instants : Advance(t)
  \/ \E b \in BOOLEAN : SetCredentials(b)
  \/ GetClient

InitClient ==
  /\ entries = {}
  /\ nextId = 0
  /\ now = 0
  /\ remoteFiles = Paths
  /\ remoteNarration = {}
  /\ syncPc = [p \in Procs |-> "idle"]
  /\ syncListing = [p \in Procs |-> {}]
  /\ syncResult = [p \in Procs |-> NoResult]
  /\ putCall = [q \in Putters |-> NoPutCall]
  /\ credentials \in BOOLEAN
  /\ cachedClient = NULL
  /\ tokenExpiry = 0
  /\ linkCache = [path \in LinkPaths |-> NULL]
  /\ linksIssued = 0
  /\ linkAsked = [path \in LinkPaths |-> 0]
  /\ clientCall = NoClientCall
  /\ linkCall = [r \in Getters |-> NoLinkCall]
  /\ narrCall = [w \in Writers |-> NoNarrCall]
  /\ lastOp = [kind |-> "none", listing |-> {}, added |-> 0,
               overlap |-> FALSE, prev |-> <<>>]

SpecClient == InitClient /\ [][NextClient]_vars

(***************************************************************************)
(* Properties of the reconciliation pass.                                  *)
(***************************************************************************)
\* A step in which request p's pass ends, by returning or by throwing after
\* its listing arrived.
PassEnds(p) == syncPc[p] = "listing" /\ syncResult'[p].status \in {"ok", "write", "unique"}

\* A step in which request p's pass returns its counts.
PassCompletes(p) == syncPc[p] = "listing" /\ syncPc'[p] = "done"

\* The row of es' that has the id of row e.
SameId(e, es) == {f \in es : f.id = e.id}

C4_SecondPassIdle ==
  [][\A p \in Procs :
       (PassCompletes(p) /\ lastOp.kind = "sync"
          /\ lastOp.listing = syncListing[p]) =>
         /\ syncResult'[p].added = 0
         /\ syncResult'[p].unchanged = Cardinality(syncListing[p])
         /\ entries' = entries
         /\ nextId' = nextId
    ]_vars

\* Two passes in a row with the same listing of two files, the first of which
\* had something to add, and the clock moved since the rows were written.
C4_Witness ==
  /\ syncPc[1] = "done"
  /\ lastOp.kind = "sync"
  /\ lastOp.prev # <<>>
  /\ lastOp.prev[1] = "sync"
  /\ lastOp.prev[2] >= 1
  /\ syncResult[1].unchanged >= 2
  /\ \E e \in entries : e.updated_at < now

\* C5: after a pass that returns, every listed path has a row whose
\* has_narration is the listing's hasNarration, new rows included; the rows
\* whose flag was corrected are among the unchanged, and added counts the new
\* rows only.
C5_FlagsFollowListing ==
  [][\A p \in Procs : PassCompletes(p) =>
       /\ \A file \in syncListing[p] :
            /\ getEntryByPath(entries', file.path) # {}
            /\ \A e \in getEntryByPath(entries', file.path) :
                 (e.has_narration = 1) = file.hasNarration
       /\ syncResult'[p].added = Cardinality(entries') - Cardinality(entries)
       /\ Cardinality({e \in entries : e \notin entries'})
            <= syncResult'[p].unchanged
    ]_vars

\* A pass has returned after creating a row for a narrated file and clearing
\* the flag of an existing row.
C5_Witness ==
  /\ syncPc[1] = "done"
  /\ syncResult[1].added >= 1
  /\ syncResult[1].unchanged >= 1
  /\ \E e \in entries : e.title = NULL /\ e.position = NULL /\ e.has_narration = 1
  /\ \E e \in entries : e.title # NULL /\ e.has_narration = 0

\* C6: a row created by a pass is a staging row: position NULL, not disabled,
\* no title, no transcript; getActiveEntries does not return it.
C6_NewRowsAreStaging ==
  [][\A p \in Procs : PassEnds(p) =>
       \A e \in entries' :
         SameId(e, entries) = {} =>
           /\ e.position = NULL
           /\ e.disabled = 0
           /\ e.title = NULL
           /\ e.transcript = NULL
           /\ e \in StagingRows(entries')
           /\ e \notin Range(getActiveEntries(entries'))
    ]_vars

\* A pass has added a row beside an active one.
C6_Witness ==
  /\ syncPc[1] = "done"
  /\ syncResult[1].added >= 1
  /\ getActiveEntries(entries) # <<>>
  /\ StagingRows(entries) # {}

\* A step in which request p fails for want of a listing.
ListingFails(p) ==
  /\ syncResult'[p] # syncResult[p]
  /\ syncResult'[p].status \in {"remote", "credentials"}

\* C7: when the listing cannot be fetched the catalog is left as it was and
\* the caller gets the error, not counts.
C7_ListingFailureWritesNothing ==
  [][\A p \in Procs : ListingFails(p) =>
       /\ entries' = entries
       /\ nextId' = nextId
       /\ syncPc'[p] = "failed"
       /\ SyncResponse(p)' = [status |-> 500, body |-> [error |-> "Sync failed"]]
    ]_vars

\* The remote listing failed while the folder held a file the catalog lacks.
C7_Witness ==
  /\ syncPc[1] = "failed"
  /\ syncResult[1].status = "remote"
  /\ entries # {}
  /\ remoteFiles \ PathsOf(entries) # {}

\* C8: a write refused in the middle of a pass ends the pass with the error;
\* the rows the pass had created stay; a later pass with the same listing that
\* returns creates exactly the rows still missing.
C8_PartialPassThenRerun ==
  [][\A p \in Procs :
       /\ (PassEnds(p) /\ syncResult'[p].status = "write") =>
            /\ syncPc'[p] = "failed"
            /\ SyncResponse(p)'.status = 500
            /\ Cardinality(entries') - Cardinality(entries)
                 >= syncResult'[p].added
            /\ PathsOf(entries) \subseteq PathsOf(entries')
            /\ PathsOf(entries') \subseteq
                 PathsOf(entries) \cup ListedPaths(syncListing[p])
       /\ (PassCompletes(p) /\ lastOp.kind = "syncFailed"
             /\ lastOp.listing = syncListing[p]) =>
            /\ PathsOf(entries') \ PathsOf(entries)
                 = ListedPaths(syncListing[p]) \ PathsOf(entries)
            /\ syncResult'[p].added =
                 Cardinality(ListedPaths(syncListing[p]) \ PathsOf(entries))
            /\ ListedPaths(syncListing[p]) \subseteq PathsOf(entries')
    ]_vars

\* A pass failed after adding a row, and the next pass, with the same
\* listing, added the rest.
C8_Witness ==
  /\ syncPc[1] = "done"
  /\ lastOp.kind = "sync"
  /\ lastOp.added >= 1
  /\ lastOp.prev # <<>>
  /\ lastOp.prev[1] = "syncFailed"
  /\ lastOp.prev[2] >= 1

(***************************************************************************)
(* Properties of the catalog.                                              *)
(***************************************************************************)
NoDuplicatePaths ==
  \A e, f \in entries : e.dropbox_path = f.dropbox_path => e = f

\* C1: createEntry for a path that already has a row throws and adds no row,
\* and, whatever was called before, no two rows have the same dropbox_path.
C1_UniquePaths ==
  /\ NoDuplicatePaths
  /\ \A path \in PathsOf(entries) :
       /\ ~createEntry(entries, nextId + 1, path, now).ok
       /\ createEntry(entries, nextId + 1, path, now).entries = entries
  /\ lastOp.kind = "createFailed" => \E path \in Paths : UniqueViolation(entries, path)

\* createEntry has just thrown for a path that has a row, in a catalog of two
\* rows one of which a pass created.
C1_Witness ==
  /\ lastOp.kind = "createFailed"
  /\ Cardinality(entries) = 2
  /\ syncPc[1] = "done"
  /\ syncResult[1].added >= 1

\* C9: with two passes in flight at once, no step leaves two rows with one
\* path, no pass is stopped by the UNIQUE constraint, and when a pass returns
\* every path of its listing has exactly one row.
C9_OverlapOneRowPerPath ==
  [][/\ NoDuplicatePaths'
     /\ \A p \in Procs :
          /\ PassEnds(p) => syncResult'[p].status # "unique"
          /\ PassCompletes(p) =>
               \A path \in ListedPaths(syncListing[p]) :
                 Cardinality(getEntryByPath(entries', path)) = 1
    ]_vars

\* Both requests got the same listing before either ran; the first pass to
\* run added rows, the second found them all and added none.
C9_Witness ==
  /\ syncPc[1] = "done"
  /\ syncPc[2] = "done"
  /\ lastOp.kind = "sync"
  /\ lastOp.added = 0
  /\ lastOp.prev # <<>>
  /\ lastOp.prev[1] = "sync"
  /\ lastOp.prev[2] >= 2
  /\ lastOp.prev[3]
  /\ Cardinality(entries) >= 2

(***************************************************************************)
(* Properties of the link cache.                                           *)
(***************************************************************************)
\* A step in which the narration write of request w returns to its route
\* without an error thrown.
NarrationWriteCompletes(w) ==
  narrCall[w].pc \in {"sent", "applied"} /\ narrCall'[w].pc = "done"

\* C10: when uploadNarration or deleteNarration returns, the link cache has
\* no entry for the narration path of that media path, so a getTemporaryLink
\* for it that begins next finds no cached link and asks the remote store.
C10_WriteEvictsNarrationLink ==
  [][\A w \in Writers : NarrationWriteCompletes(w) =>
       LET narrationPath == getNarrationPath(narrCall[w].mediaPath)
       IN /\ linkCache'[narrationPath] = NULL
          /\ ~CacheHit(linkCache', narrationPath, now')
    ]_vars

\* An upload has returned after a link for the narration had been fetched
\* and cached, and the cache no longer has it.
C10_Witness ==
  /\ narrCall[1].pc = "done"
  /\ narrCall[1].kind = "upload"
  /\ narrCall[1].status = 200
  /\ linkCall[1].pc = "done"
  /\ linkCall[1].path = getNarrationPath(narrCall[1].mediaPath)
  /\ linkCall[1].link # NULL
  /\ linkCache[linkCall[1].path] = NULL

\* A step in which request r begins getTemporaryLink (its entry was found).
LinkCallBegins(r) ==
  /\ linkCall[r].pc # "requesting"
  /\ linkCall'[r] # linkCall[r]
  /\ linkCall'[r].path # ""

\* A step in which the remote store's answer to request r arrives.
LinkCallReturns(r) == linkCall[r].pc = "requesting" /\ linkCall'[r].pc = "done"

\* C11: a call of getTemporaryLink for a path with a cache entry, begun less
\* than three hours after the call that cached the entry began, answers with
\* the cached link and asks the remote store nothing; begun three hours after
\* it or later, it is not answered from the cache: it asks the remote store
\* (given a handle), and the answer, a link not issued before, is returned
\* and replaces the entry.
C11_LinkCachedThreeHours ==
  [][\A r \in Getters :
       /\ LinkCallBegins(r) =>
            LET path == linkCall'[r].path
                age == now - linkAsked[path]
            IN /\ (linkCache[path] # NULL /\ age < THREE_HOURS) =>
                    /\ linkCall'[r].pc = "done"
                    /\ linkCall'[r].link = Some(linkCache[path][1].link)
                    /\ linksIssued' = linksIssued
                    /\ linkCache' = linkCache
               /\ (linkCache[path] # NULL /\ age >= THREE_HOURS) =>
                    /\ linkCall'[r].pc # "done"
                    /\ getDropboxClient(now).ok => linkCall'[r].pc = "requesting"
       /\ LinkCallReturns(r) =>
            LET path == linkCall[r].path
            IN /\ linkCall'[r].link # NULL
               /\ linkCall'[r].link[1] > linksIssued
               /\ linksIssued' = linksIssued + 1
               /\ linkCache'[path] # NULL
               /\ linkCache'[path][1].link = linkCall'[r].link[1]
               /\ linkCache[path] # NULL =>
                    linkCache[path][1].link # linkCall'[r].link[1]
    ]_vars

\* A link cached for a path was asked for again three hours later or more,
\* and the second link the remote store issued has taken its place.
C11_Witness ==
  /\ linksIssued = 2
  /\ linkCall[1].pc = "done"
  /\ linkCall[1].link = Some(2)
  /\ linkCall[1].now >= THREE_HOURS
  /\ linkCache[linkCall[1].path] # NULL
  /\ linkCache[linkCall[1].path][1].link = 2
  /\ \A path \in LinkPaths \ {linkCall[1].path} : linkCache[path] = NULL

(***************************************************************************)
(* Properties of the credential cache.                                     *)
(***************************************************************************)
\* A step in which getDropboxClient is called.
ClientCalled == clientCall' # clientCall

\* The test at the head of getDropboxClient.
ClientFresh == cachedClient # NULL /\ tokenExpiry > now + FIVE_MINUTES

\* The call returned the cached handle and built none.
ReturnsCached ==
  /\ clientCall'.ok
  /\ clientCall'.client = cachedClient
  /\ cachedClient' = cachedClient
  /\ tokenExpiry' = tokenExpiry

\* The call built a handle, cached it with expiry now + 4 h and returned it.
ReturnsNew ==
  /\ clientCall'.ok
  /\ clientCall'.client # NULL
  /\ clientCall'.client # cachedClient
  /\ cachedClient' = clientCall'.client
  /\ tokenExpiry' = now + FOUR_HOURS

\* The call threw and left the cache as it was.
ThrowsNotConfigured ==
  /\ ~clientCall'.ok
  /\ clientCall'.client = NULL
  /\ cachedClient' = cachedClient
  /\ tokenExpiry' = tokenExpiry

\* C12 as claimed: the cached handle exactly when one is cached with an
\* expiry more than five minutes ahead, and in every other case a new handle,
\* cached with expiry now + 4 h.
C12_AsClaimed ==
  [][ClientCalled => IF ClientFresh THEN ReturnsCached ELSE ReturnsNew]_vars

\* C12, amended: the cached handle exactly when one is cached with an expiry
\* more than five minutes ahead; in every other case, a new handle cached with
\* expiry now + 4 h if the credentials are all set, and the error if not.
C12_CachedOrNewHandle ==
  [][ClientCalled =>
       /\ ClientFresh => ReturnsCached
       /\ (~ClientFresh /\ credentials) => ReturnsNew
       /\ (~ClientFresh /\ ~credentials) => ThrowsNotConfigured
       /\ ReturnsCached => ClientFresh
    ]_vars

\* A second handle has been built, five minutes before the first expired.
C12_Witness ==
  /\ clientCall.made
  /\ clientCall.ok
  /\ clientCall.client = Some(2)
  /\ clientCall.at = FOUR_HOURS - FIVE_MINUTES
  /\ tokenExpiry = clientCall.at + FOUR_HOURS

\* C13 as claimed: every call made while a credential is missing throws.
C13_AsClaimed ==
  [][(ClientCalled /\ ~credentials) => ThrowsNotConfigured]_vars

\* C13, amended: every call made while a credential is missing, and not
\* answered with a cached handle whose expiry is more than five minutes
\* ahead, throws and returns no handle; the credentials are looked at when
\* the call is made: it throws though they were set earlier, and it succeeds
\* once they are set though they were missing earlier.
C13_MissingCredentialsThrow ==
  [][ClientCalled =>
       /\ (~credentials /\ ~ClientFresh) => ThrowsNotConfigured
       /\ credentials => clientCall'.ok
       /\ ~clientCall'.ok => ~credentials
    ]_vars

\* A call has thrown after a handle had been built: the credentials were
\* set once and are missing now that the handle is too old.
C13_Witness ==
  /\ clientCall.made
  /\ ~clientCall.ok
  /\ cachedClient # NULL
  /\ ~credentials
  /\ clientCall.at = now

(***************************************************************************)
(* Properties of deleteNarration's error handling.                         *)
(***************************************************************************)
\* A step in which the delete request of w rejects with an error.
DeleteRejects(w) ==
  /\ narrCall[w].kind = "delete"
  /\ narrCall[w].pc \in {"sent", "applied"}
  /\ narrCall'[w].error # NULL

\* C14: deleteNarration treats a rejected remote delete as success only when
\* the remote store reports that the object does not exist; every other
\* rejection (a server error, another kind of 409, an error with no status)
\* is thrown again.
C14_OnlyNotFoundSwallowed ==
  [][\A w \in Writers : DeleteRejects(w) =>
       /\ narrCall'[w].error[1].notFound => narrCall'[w].pc = "done"
       /\ ~narrCall'[w].error[1].notFound => narrCall'[w].pc = "failed"
    ]_vars

\* A delete has been answered as a success although the remote store
\* rejected it with something other than "not found".
C14_Witness ==
  /\ narrCall[1].kind = "delete"
  /\ narrCall[1].pc = "done"
  /\ narrCall[1].status = 200
  /\ narrCall[1].error # NULL
  /\ ~narrCall[1].error[1].notFound

(***************************************************************************)
(* Properties of the reorder operation.                                    *)
(***************************************************************************)
\* A step in which reorderEntries returns without throwing.
ReorderReturns == lastOp'.kind = "reorder" /\ lastOp' # lastOp

\* The rows the step leaves as they were.
Untouched(ids) ==
  /\ {e \in entries' : e.id \notin Range(ids)} =
       {e \in entries : e.id \notin Range(ids)}
  /\ {e.id : e \in entries'} = {e.id : e \in entries}

\* C15 as claimed: reorderEntries(ids) sets the position of ids[i] to i for
\* every index i, leaves the entries not in ids unchanged, and
\* reorderEntries([]) changes nothing.
C15_AsClaimed ==
  [][ReorderReturns =>
       LET ids == lastOp'.ids
       IN /\ \A i \in DOMAIN ids : \A e \in entries' :
                e.id = ids[i] => e.position = Some(i - 1)
          /\ Untouched(ids)
          /\ ids = <<>> => entries' = entries
    ]_vars

\* C15, amended: reorderEntries(ids) sets the position of ids[i] to i for
\* every index i whose id does not occur again later in ids (an id given more
\* than once ends at its last index), leaves the entries not in ids
\* unchanged, and reorderEntries([]) succeeds and changes nothing.
C15_ReorderSetsIndexes ==
  [][ReorderReturns =>
       LET ids == lastOp'.ids
       IN /\ \A i \in DOMAIN ids :
                (\A j \in DOMAIN ids : j > i => ids[j] # ids[i]) =>
                   \A e \in entries' : e.id = ids[i] => e.position = Some(i - 1)
          /\ Untouched(ids)
          /\ ids = <<>> => entries' = entries
    ]_vars

\* Two rows have been swapped by a reorder that named the second first.
C15_Witness ==
  /\ lastOp.kind = "reorder"
  /\ lastOp.ids = <<2, 1>>
  /\ \E a, b \in entries :
        /\ a.id = 1 /\ a.position = Some(1)
        /\ b.id = 2 /\ b.position = Some(0)

\* Every row the list names stands at the index the whole list gives it.
WhollyRenumbered(es, ids) ==
  \A e \in es : e.id \in Range(ids) =>
     e.position = Some(Max({i \in DOMAIN ids : ids[i] = e.id}) - 1)

\* C16: reorderEntries is all or nothing. A call that fails after some of its
\* writes leaves every row as it was, and a call that returns leaves every
\* named row renumbered: no state any other catalog operation can read has
\* the list renumbered in part.
C16_ReorderAllOrNothing ==
  [][/\ lastOp'.kind = "reorderFailed" => entries' = entries
     /\ ReorderReturns => WhollyRenumbered(entries', lastOp'.ids)
    ]_vars

\* A reorder has failed after a write that moved a row, and the active rows
\* stand at different positions as before.
C16_Witness ==
  /\ lastOp.kind = "reorderFailed"
  /\ lastOp.undone
  /\ \E a, b \in ActiveRows(entries) : a.position # b.position

\* No two active rows share a position.
DistinctPositions(es) ==
  \A a, b \in ActiveRows(es) : a.id # b.id => a.position # b.position

\* A step in which a reorder request or a reconciliation pass ends.
RenumberEnds ==
  /\ lastOp'.kind \in {"reorder", "reorderFailed", "sync", "syncFailed"}
  /\ lastOp' # lastOp \/ entries' # entries

\* C17: neither reorderEntries(ids), for any id list, nor a reconciliation
\* pass introduces a duplicate position: if no two active entries share a
\* position before it, none share one after it.
C17_NoNewDuplicatePositions ==
  [][(RenumberEnds /\ DistinctPositions(entries))
       => DistinctPositions(entries')]_vars

\* A reorder naming one row has gone through and two active rows stand at
\* the same position.
C17_Witness ==
  /\ lastOp.kind = "reorder"
  /\ Len(lastOp.ids) = 1
  /\ ~DistinctPositions(entries)

(***************************************************************************)
(* Properties of the status transitions.                                   *)
(***************************************************************************)
\* A step in which a PUT asking for status s is answered.
StatusSet(s) ==
  lastOp'.kind = "status" /\ lastOp'.status = s /\ lastOp' # lastOp

\* One past the largest position any row holds, disabled rows included.
OnePastMax(es) ==
  LET placed == {e \in es : e.position # NULL}
  IN IF placed = {} THEN 0
     ELSE 1 + CHOOSE p \in {e.position[1] : e \in placed} :
                 \A e \in placed : e.position[1] <= p

\* C18: status 'active' on an entry whose position is NULL sets disabled to
\* false and position to one past the largest position among the entries
\* that have one, disabled entries included, or to 0 when none has one.
C18_ActivateTakesNextPosition ==
  [][StatusSet("active") =>
       \A e \in getEntryById(entries, lastOp'.id) :
         e.position = NULL =>
           \E f \in getEntryById(entries', e.id) :
             /\ f.disabled = 0
             /\ f.position = Some(OnePastMax(entries))
    ]_vars

\* A row without a position has been activated while the only placed row,
\* at 0, was disabled: it stands active at 1.
C18_Witness ==
  /\ lastOp.kind = "status"
  /\ lastOp.status = "active"
  /\ \E w \in lastOp.was : w.position = NULL
  /\ \E f \in getEntryById(entries, lastOp.id) :
        f.disabled = 0 /\ f.position = Some(1)
  /\ \A e \in entries : e.id # lastOp.id =>
        e.disabled = 1 /\ e.position = Some(0)
  /\ Cardinality(entries) = 2

\* A step that may move row id by the claim's own exceptions: a reorder
\* naming it, or a staging request for it.
MovedOnPurpose(id) ==
  /\ lastOp' # lastOp
  /\ \/ lastOp'.kind = "reorder" /\ id \in Range(lastOp'.ids)
     \/ lastOp'.kind = "status" /\ lastOp'.status = "staging"
          /\ lastOp'.id = id

\* C19: an entry disabled at position p and activated again stands at p,
\* whatever happened to the other entries meanwhile: from the step that
\* disables it to the step that activates it, no step but a reorder naming
\* it or a staging request for it changes its position, and the activation
\* does not take the next free position.
C19_DisableKeepsPosition ==
  [][\A e \in entries : \A f \in getEntryById(entries', e.id) :
       (/\ e.position # NULL
        /\ e.disabled = 1 \/ f.disabled = 1
        /\ ~MovedOnPurpose(e.id)) => f.position = e.position
    ]_vars

\* A disabled row has been activated and stands where it stood, at 0,
\* though another row holds position 1 and the next free position is 2.
C19_Witness ==
  /\ lastOp.kind = "status"
  /\ lastOp.status = "active"
  /\ lastOp.was = {[position |-> Some(0), disabled |-> 1]}
  /\ \E f \in getEntryById(entries, lastOp.id) :
        f.disabled = 0 /\ f.position = Some(0)
  /\ \E e \in entries : e.id # lastOp.id /\ e.position = Some(1)

\* C20: status 'staging' on any entry sets disabled to false and position
\* to NULL, and a later promotion gives it the position getNextPosition
\* returns then, which does not depend on the position it had.
C20_StagingClearsPosition ==
  [][/\ StatusSet("staging") =>
          \A f \in getEntryById(entries', lastOp'.id) :
            f.disabled = 0 /\ f.position = NULL
     /\ StatusSet("active") =>
          \A e \in getEntryById(entries, lastOp'.id) :
            e.position = NULL =>
              \A f \in getEntryById(entries', e.id) :
                f.position = Some(getNextPosition(entries \ {e}))
    ]_vars

\* The row first placed at 0 has been staged and promoted again, and stands
\* at 1, behind the row that took its place.
C20_Witness ==
  /\ lastOp.kind = "status"
  /\ lastOp.status = "active"
  /\ lastOp.id = 1
  /\ \E w \in lastOp.was : w.position = NULL /\ w.disabled = 0
  /\ \E f \in getEntryById(entries, 1) : f.position = Some(1)
  /\ \E e \in entries : e.id = 2 /\ e.position = Some(0)

(***************************************************************************)
(* Properties of updateEntry.                                              *)
(***************************************************************************)
\* A step in which updateEntry returns.
UpdateReturns == lastOp'.kind = "update" /\ lastOp' # lastOp

\* Row f is row e with the fields of the patch written and the rest kept.
Patched(e, f, u) ==
  /\ f.id = e.id
  /\ f.dropbox_path = e.dropbox_path
  /\ f.created_at = e.created_at
  /\ f.title = IF "title" \in DOMAIN u THEN u.title ELSE e.title
  /\ f.transcript =
       IF "transcript" \in DOMAIN u THEN u.transcript ELSE e.transcript
  /\ f.position = IF "position" \in DOMAIN u THEN u.position ELSE e.position
  /\ f.disabled = IF "disabled" \in DOMAIN u
                  THEN (IF u.disabled THEN 1 ELSE 0) ELSE e.disabled
  /\ f.has_narration = IF "has_narration" \in DOMAIN u
                       THEN (IF u.has_narration THEN 1 ELSE 0)
                       ELSE e.has_narration

\* C21: updateEntry(id, patch) on an existing entry writes exactly the
\* fields present in the patch (null clears, an absent field keeps its
\* value) plus updated_at, so a patch with only disabled leaves position
\* and a patch with only position leaves disabled; an empty patch changes
\* nothing; either way the record as it then stands is returned, and no
\* other row changes.
C21_UpdateWritesPatchOnly ==
  [][UpdateReturns =>
       LET u == lastOp'.updates
           id == lastOp'.id
       IN /\ \A e \in getEntryById(entries, id) :
                \E f \in getEntryById(entries', id) :
                  /\ Patched(e, f, u)
                  /\ f.updated_at = IF DOMAIN u = {} THEN e.updated_at ELSE now
                  /\ DOMAIN u = {} => f = e
                  /\ lastOp'.returned = {f}
          /\ {e \in entries' : e.id # id} = {e \in entries : e.id # id}
          /\ Cardinality(entries') = Cardinality(entries)
    ]_vars

\* A patch with only disabled has been applied, later than the row's last
\* change, to a titled row that had a position: the row is disabled, still
\* titled, at the same position, and carries the time of the call.
C21_Witness ==
  /\ lastOp.kind = "update"
  /\ lastOp.updates = [disabled |-> TRUE]
  /\ \E f \in lastOp.returned :
        /\ f \in entries
        /\ f.disabled = 1
        /\ f.position # NULL
        /\ f.title # NULL
        /\ f.updated_at = now
        /\ f.updated_at > f.created_at

\* The stored fields of rows e and f that an operation can write differ.
FieldChanged(e, f) ==
  \/ f.title # e.title
  \/ f.transcript # e.transcript
  \/ f.position # e.position
  \/ f.disabled # e.disabled
  \/ f.has_narration # e.has_narration

\* C22: every operation that changes a stored field of an entry (updateEntry
\* with a non-empty patch, a status transition, reorderEntries, a
\* narration-flag correction by a reconciliation pass) brings that entry's
\* updated_at to the time of the operation.
C22_MutationsTouchUpdatedAt ==
  [][\A e \in entries : \A f \in getEntryById(entries', e.id) :
       FieldChanged(e, f) => f.updated_at = now /\ f.updated_at >= e.updated_at
    ]_vars

\* A reorder has moved a row whose updated_at is still older than the clock.
C22_Witness ==
  /\ lastOp.kind = "reorder"
  /\ lastOp.ids = <<2>>
  /\ \E f \in getEntryById(entries, 2) :
        f.position = Some(0) /\ f.updated_at < now

(***************************************************************************)
(* Properties of the list queries.                                         *)
(***************************************************************************)
\* C23: getAllEntries returns every entry exactly once, in three tiers:
\* the active entries first by position ascending, then the staging entries
\* by created_at descending, then the disabled entries by updated_at
\* descending.
C23_AllEntriesThreeTiers ==
  LET all == getAllEntries(entries)
  IN /\ Len(all) = Cardinality(entries)
     /\ Range(all) = entries
     /\ \A i, j \in DOMAIN all : i < j =>
           /\ Tier(all[i]) <= Tier(all[j])
           /\ (Tier(all[i]) = 0 /\ Tier(all[j]) = 0)
                => all[i].position[1] <= all[j].position[1]
           /\ (Tier(all[i]) = 1 /\ Tier(all[j]) = 1)
                => all[i].created_at >= all[j].created_at
           /\ (Tier(all[i]) = 2 /\ Tier(all[j]) = 2)
                => all[i].updated_at >= all[j].updated_at

\* Two disabled rows, the one disabled later listed after the other.
C23_Witness ==
  LET all == getAllEntries(entries)
  IN /\ Len(all) = 2
     /\ all[1].disabled = 1 /\ all[2].disabled = 1
     /\ all[1].updated_at < all[2].updated_at
     /\ all[1].position[1] < all[2].position[1]

\* The number of times row e occurs in list q.
Occurrences(q, e) == Cardinality({i \in DOMAIN q : q[i] = e})

\* C24: in every reachable state each entry is returned by exactly one of
\* getActiveEntries, getStagingEntries and getDisabledEntries, the one the
\* status table gives: disabled set means the disabled list whatever the
\* position, not disabled without a position means staging, not disabled
\* with a position means active.
C24_OneListPerEntry ==
  LET active == getActiveEntries(entries)
      staging == getStagingEntries(entries)
      disabled == getDisabledEntries(entries)
  IN \A e \in entries :
       /\ Occurrences(active, e) + Occurrences(staging, e)
            + Occurrences(disabled, e) = 1
       /\ e.disabled # 0 => Occurrences(disabled, e) = 1
       /\ (e.disabled = 0 /\ e.position = NULL) => Occurrences(staging, e) = 1
       /\ (e.disabled = 0 /\ e.position # NULL) => Occurrences(active, e) = 1

\* A disabled row without a position beside a disabled row with one: both
\* are in the disabled list and in no other.
C24_Witness ==
  /\ \E e, f \in entries :
        /\ e.disabled = 1 /\ e.position = NULL
        /\ f.disabled = 1 /\ f.position # NULL
  /\ Len(getDisabledEntries(entries)) = 2
  /\ getStagingEntries(entries) = <<>>
  /\ getActiveEntries(entries) = <<>>

(***************************************************************************)
(* Properties of deleteEntry.                                              *)
(***************************************************************************)
\* A step in which deleteEntry returns.
DeleteReturns == lastOp'.kind = "delete" /\ lastOp' # lastOp

\* C25: deleteEntry(id) returns true and removes exactly that entry when it
\* exists, and returns false and changes nothing when it does not; either
\* way every other entry is left as it was, fields and position.
C25_DeleteRemovesOnlyThatEntry ==
  [][DeleteReturns =>
       LET id == lastOp'.id
       IN /\ getEntryById(entries, id) # {} =>
                /\ lastOp'.returned
                /\ getEntryById(entries', id) = {}
          /\ getEntryById(entries, id) = {} =>
                /\ ~lastOp'.returned
                /\ entries' = entries
          /\ {e \in entries' : e.id # id} = {e \in entries : e.id # id}
    ]_vars

\* The row at position 0 has been deleted and the row behind it is still at
\* position 1.
C25_Witness ==
  /\ lastOp.kind = "delete"
  /\ lastOp.returned
  /\ lastOp.id = 1
  /\ \E e \in entries : entries = {e} /\ e.id = 2 /\ e.position = Some(1)

(***************************************************************************)
(* Properties of the public read routes.                                   *)
(***************************************************************************)
\* Request r is answered 'not found' on the spot: no row, no link, no
\* handle fetched, no request to the remote store, the cache untouched.
AnsweredNotFound(r) ==
  /\ linkCall'[r].pc = "done"
  /\ linkCall'[r].status = 404
  /\ linkCall'[r].link = NULL
  /\ "body" \in DOMAIN linkCall'[r] => linkCall'[r].body = {}
  /\ UNCHANGED <<linkCache, linksIssued, cachedClient, tokenExpiry>>

\* C26: no public read path returns data or asks for a temporary link for an
\* entry whose disabled flag is set when the request is handled: the entry
\* route, the media redirect and the narration redirect answer 'not found',
\* as for an id that matches no entry, and the active listing has no
\* disabled entry in it.
C26_DisabledNeverPublic ==
  [][\A r \in Getters :
       /\ \A id \in 1..MaxIds :
            (/\ \E e \in getEntryById(entries, id) : e.disabled = 1
             /\ EntryGet(r, id) \/ MediaGet(r, id) \/ NarrationGet(r, id))
            => AnsweredNotFound(r)
       /\ EntriesGet(r) =>
            \A i \in DOMAIN linkCall'[r].body : linkCall'[r].body[i].disabled = 0
    ]_vars

\* The entry route has answered 'not found' for a row that exists, has a
\* link in the cache from the time it was shown, and is disabled now.
C26_Witness ==
  /\ linkCall[1].kind = "entry"
  /\ linkCall[1].status = 404
  /\ \E e \in getEntryById(entries, linkCall[1].id) :
        e.disabled = 1 /\ linkCache[e.dropbox_path] # NULL

(***************************************************************************)
(* Properties of requests that overlap.                                    *)
(***************************************************************************)
\* C27: once an uploadNarration or deleteNarration has returned, the link
\* cache never takes a link that was asked of the remote store before it
\* returned: a link request in flight during the write does not put its
\* link into the cache.
C27_NoPreWriteLinkCached ==
  [][\A r \in Getters :
       (LinkCallReturns(r) /\ linkCall[r].overtaken)
         => linkCache'[linkCall[r].path] = NULL
    ]_vars

\* An upload has returned while a link request for the same narration was
\* waiting, and the link that request then got sits in the cache.
C27_Witness ==
  /\ narrCall[1].pc = "done"
  /\ narrCall[1].kind = "upload"
  /\ linkCall[1].pc = "done"
  /\ linkCall[1].overtaken
  /\ linkCall[1].path = getNarrationPath(narrCall[1].mediaPath)
  /\ linkCache[linkCall[1].path] # NULL
  /\ Some(linkCache[linkCall[1].path][1].link) = linkCall[1].link

\* C28: once a reconciliation pass and a narration upload or delete on an
\* entry have both completed, the entry's has_narration flag equals the
\* presence of its narration object in the remote store, however the two
\* were interleaved. The write is one the remote store answered with success.
C28_FlagSurvivesOverlappingPass ==
  \A w \in Writers :
    (/\ syncPc[1] = "done"
     /\ narrCall[w].pc = "done"
     /\ narrCall[w].status = 200
     /\ narrCall[w].error = NULL)
      => \A e \in getEntryById(entries, narrCall[w].id) :
           (e.has_narration = 1) <=> (e.dropbox_path \in remoteNarration)

\* A pass and an upload have both completed, the folder holds the narration
\* and the row says it has none.
C28_Witness ==
  /\ syncPc[1] = "done"
  /\ narrCall[1].pc = "done"
  /\ narrCall[1].status = 200
  /\ narrCall[1].error = NULL
  /\ narrCall[1].kind = "upload"
  /\ narrCall[1].mediaPath \in remoteNarration
  /\ \E e \in getEntryById(entries, narrCall[1].id) : e.has_narration = 0

\* C29: two status-to-active requests for two different entries without a
\* position, in flight at once, are never assigned the same position.
\* Promotes(q): request q, in flight, asks to activate a row that has no
\* position. PromotedMeanwhile(x, q): request x, handled while q was in
\* flight, gave another row a position.
C29_ConcurrentPromotionsDiffer ==
  [][LET Promotes(q) ==
           /\ putCall[q].pc = "parsing"
           /\ putCall[q].status = "active"
           /\ \E e \in getEntryById(entries, putCall[q].id) :
                 e.position = NULL
         PromotedMeanwhile(x, q) ==
           /\ putCall[x].pc = "done"
           /\ q \in putCall[x].with
           /\ putCall[x].status = "active"
           /\ putCall[x].assigned # NULL
           /\ putCall[x].id # putCall[q].id
     IN \A q \in Putters : \A x \in Putters \ {q} :
          (Promotes(q) /\ PromotedMeanwhile(x, q) /\ PutHandle(q))
            => /\ putCall'[q].assigned # NULL
               /\ putCall'[q].assigned # putCall[x].assigned
               /\ \A e \in getEntryById(entries', putCall[x].id) :
                     e.position = putCall[x].assigned
    ]_vars

\* Both requests were in flight together, both have been handled, and the two
\* rows hold the positions they were assigned.
C29_Witness ==
  /\ putCall[1].pc = "done" /\ putCall[2].pc = "done"
  /\ putCall[1].status = "active" /\ putCall[2].status = "active"
  /\ putCall[1].id # putCall[2].id
  /\ 2 \in putCall[1].with
  /\ putCall[1].assigned # NULL /\ putCall[2].assigned # NULL
  /\ \A q \in Putters : \E e \in getEntryById(entries, putCall[q].id) :
        e.position = putCall[q].assigned /\ e.disabled = 0

(***************************************************************************)
(* Positions across status transitions.                                    *)
(***************************************************************************)
\* C30 as stated: setting an entry to status 'active' never introduces a
\* duplicate position among the active entries, whatever reorders,
\* promotions and disablings happened while it was not active.
C30_AsClaimed ==
  [][(StatusSet("active") /\ DistinctPositions(entries))
       => DistinctPositions(entries')]_vars

\* C30, amended: a status transition never introduces a duplicate among the
\* positions held by any rows, active or disabled; so an entry set to
\* 'active', promoted or re-enabled with the position it kept, collides with
\* no active entry after any sequence of promotions and disablings. (A
\* reorder while the entry is disabled can hand its position to an active
\* entry.)
C30_StatusKeepsPositionsDistinct ==
  [][LET DistinctPlaced(es) ==
           \A a, b \in es :
             (a.id # b.id /\ a.position # NULL) => a.position # b.position
     IN \A s \in Statuses :
          (StatusSet(s) /\ DistinctPlaced(entries))
            => DistinctPlaced(entries') /\ DistinctPositions(entries')
    ]_vars

\* A row disabled at position 1 has been set to active beside an active row
\* at position 0, and no two rows share a position.
C30_Witness ==
  /\ lastOp.kind = "status"
  /\ lastOp.status = "active"
  /\ lastOp.was = {[position |-> Some(1), disabled |-> 1]}
  /\ \E f \in getEntryById(entries, lastOp.id) :
        f.disabled = 0 /\ f.position = Some(1)
  /\ \E e \in ActiveRows(entries) : e.id # lastOp.id /\ e.position = Some(0)
  /\ \A a, b \in entries :
        (a.id # b.id /\ a.position # NULL) => a.position # b.position

====
